---- MODULE Spec2Model ----
(***************************************************************************)
(* LunaLibRust: the GTX Genesis mining engine (GenesisMiner), the bill     *)
(* entity (DigitalBill) and the issuance/verification orchestrator         *)
(* (GTXGenesis), modelled from src/src/mining/miner.rs,                    *)
(* src/src/gtx/digital_bill.rs and src/src/gtx/genesis.rs.                 *)
(*                                                                         *)
(* Strings are TLA+ strings.  Wall-clock instants and f64 durations are    *)
(* counted in ticks of half a second, so that the f64 -> u64 truncation    *)
(* of the code is a real division.                                         *)
(***************************************************************************)
EXTENDS Naturals, Integers, Sequences, FiniteSets, TLC

(***************************************************************************)
(* Bounds of the model.                                                    *)
(***************************************************************************)
MaxNonce == 2
MaxClock == 1
MaxCalls == 2
MaxWrites == 1

(***************************************************************************)
(* Text: characters, decimal and f64 formatting, JSON serialisation.       *)
(***************************************************************************)
Alphabet == "0123456789abcdefghijklmnopqrstuvwxyzGTX_{}[]()<>:,.-#\"\\"

CharAt(s, i) == SubSeq(s, i, i)

Chars == {CharAt(Alphabet, i) : i \in 1..Len(Alphabet)}

CharCode == [c \in Chars |-> CHOOSE i \in 1..Len(Alphabet) : CharAt(Alphabet, i) = c]

\* str::starts_with
StartsWith(s, prefix) ==
    /\ Len(prefix) <= Len(s)
    /\ SubSeq(s, 1, Len(prefix)) = prefix

\* "0".repeat(n)
RECURSIVE Repeat(_, _)
Repeat(c, n) == IF n = 0 THEN "" ELSE c \o Repeat(c, n - 1)

\* Display of an unsigned integer
RECURSIVE Digits(_)
Digits(n) ==
    IF n < 10 THEN CharAt("0123456789", n + 1)
    ELSE Digits(n \div 10) \o CharAt("0123456789", (n % 10) + 1)

\* Display of an f64 that holds `ticks` half seconds: 3.0 prints as "3",
\* 3.5 as "3.5"
DisplayF64(ticks) ==
    IF ticks % 2 = 0 THEN Digits(ticks \div 2) ELSE Digits(ticks \div 2) \o ".5"

\* serde_json's rendering of the same f64: 3.0 is written "3.0"
JsonF64(ticks) ==
    IF ticks % 2 = 0 THEN Digits(ticks \div 2) \o ".0" ELSE Digits(ticks \div 2) \o ".5"

\* f64 as u64: truncation toward zero
F64AsU64(ticks) == ticks \div 2

\* serde_json's escaping of a string's characters (quote and backslash)
RECURSIVE Escape(_, _, _)
Escape(s, lo, hi) ==
    IF lo > hi THEN ""
    ELSE IF lo = hi
         THEN LET c == CharAt(s, lo)
              IN  IF c = "\"" THEN "\\\"" ELSE IF c = "\\" THEN "\\\\" ELSE c
         ELSE LET mid == (lo + hi) \div 2
              IN  Escape(s, lo, mid) \o Escape(s, mid + 1, hi)

\* a JSON string value
JsonStr(s) == "\"" \o Escape(s, 1, Len(s)) \o "\""

\* lexicographic order of two strings (the order of BTreeMap<String, _>)
RECURSIVE StrLess(_, _, _)
StrLess(a, b, i) ==
    IF i > Len(a) THEN i <= Len(b)
    ELSE IF i > Len(b) THEN FALSE
    ELSE IF CharAt(a, i) = CharAt(b, i) THEN StrLess(a, b, i + 1)
    ELSE CharCode[CharAt(a, i)] < CharCode[CharAt(b, i)]

\* insertion of a key/value pair into the key-sorted map serde_json::Map
\* keeps (a later insert of a present key replaces its value)
RECURSIVE MapInsert(_, _)
MapInsert(pairs, kv) ==
    IF pairs = <<>> THEN <<kv>>
    ELSE IF Head(pairs)[1] = kv[1] THEN <<kv>> \o Tail(pairs)
    ELSE IF StrLess(kv[1], Head(pairs)[1], 1) THEN <<kv>> \o pairs
    ELSE <<Head(pairs)>> \o MapInsert(Tail(pairs), kv)

\* the json!({...}) macro: the pairs in source order go into the sorted map
RECURSIVE JsonMap(_)
JsonMap(pairs) ==
    IF pairs = <<>> THEN <<>>
    ELSE MapInsert(JsonMap(SubSeq(pairs, 1, Len(pairs) - 1)), pairs[Len(pairs)])

\* serde_json::to_string of an object whose entries are iterated in the
\* order given: {"k":v,"k":v}
RECURSIVE JsonEntries(_)
JsonEntries(pairs) ==
    IF pairs = <<>> THEN ""
    ELSE JsonStr(pairs[1][1]) \o ":" \o pairs[1][2]
         \o (IF Len(pairs) = 1 THEN "" ELSE "," \o JsonEntries(Tail(pairs)))

ToJsonString(pairs) == "{" \o JsonEntries(pairs) \o "}"

(***************************************************************************)
(* SHA-256 as lower-case hex.  The digest is a collision-free stand-in:    *)
(* one leading hex digit mixed from every character of the input, then a   *)
(* non-zero digit and the input itself in place of the remaining digits.   *)
(* A digest is never empty, is longer than 10 characters and starts with   *)
(* at most one '0' character.                                              *)
(***************************************************************************)
RECURSIVE Mix(_, _, _)
Mix(s, lo, hi) ==
    IF lo > hi THEN 0
    ELSE IF lo = hi THEN (CharCode[CharAt(s, lo)] * ((lo % 7) + 1)) % 3
    ELSE LET mid == (lo + hi) \div 2
         IN  (Mix(s, lo, mid) + Mix(s, mid + 1, hi)) % 3

HexLead(s) == CharAt("08f", Mix(s, 1, Len(s)) + 1)

Sha256Hex(s) == HexLead(s) \o "f:sha256:" \o s

(***************************************************************************)
(* Option<T>: None is the empty sequence, Some(v) the one-element one.     *)
(***************************************************************************)
None == <<>>

Some(v) == <<v>>

UnwrapOr(opt, default) == IF opt = None THEN default ELSE opt[1]

(***************************************************************************)
(* Difficulty (src/src/mining/difficulty.rs) and the target of a search.   *)
(***************************************************************************)
target_string(value) == Repeat("0", value)

\* a slip of is_valid_hash: the target may sit anywhere at the front half
is_valid_hash_slip(value, hash) == StartsWith(hash, target_string(value \div 2))

is_valid_hash(value, hash) == StartsWith(hash, target_string(value))

\* `value: u32` is kept as two 16-bit halves, value = hi * 65536 + lo
LimbBase == 65536

U32(n) == [hi |-> n \div LimbBase, lo |-> n % LimbBase]

U32Max == [hi |-> LimbBase - 1, lo |-> LimbBase - 1]

\* value + 1 in 32 bits, and whether the sum left the 32 bits
U32Inc(v) ==
    IF v.lo < LimbBase - 1 THEN [value |-> [v EXCEPT !.lo = v.lo + 1], overflow |-> FALSE]
    ELSE IF v.hi < LimbBase - 1 THEN [value |-> [hi |-> v.hi + 1, lo |-> 0], overflow |-> FALSE]
    ELSE [value |-> U32(0), overflow |-> TRUE]

\* value - 1, for value > 0
U32Dec(v) ==
    IF v.lo > 0 THEN [v EXCEPT !.lo = v.lo - 1] ELSE [hi |-> v.hi - 1, lo |-> LimbBase - 1]

\* a <= b on u32 values
U32Leq(a, b) == a.hi < b.hi \/ (a.hi = b.hi /\ a.lo <= b.lo)

\* adjust, lines 23-31; `new_value += 1` panics on overflow in a build with
\* overflow checks and wraps in one without
adjust(value, last_block_time, target_time, overflow_checks) ==
    IF last_block_time < target_time
    THEN IF U32Inc(value).overflow /\ overflow_checks
         THEN [outcome |-> "panic", value |-> value]
         ELSE [outcome |-> "value", value |-> U32Inc(value).value]
    ELSE IF last_block_time > target_time /\ (value.hi > 0 \/ value.lo > 1)
    THEN [outcome |-> "value", value |-> U32Dec(value)]
    ELSE [outcome |-> "value", value |-> value]

(***************************************************************************)
(* DigitalBill (src/src/gtx/digital_bill.rs).  `now` is the wall clock     *)
(* read by the call, `random_part` the random suffix drawn for the serial. *)
(***************************************************************************)
generate_serial(denomination, now, random_part) ==
    "GTX" \o Digits(denomination) \o "_" \o Digits(now * 500) \o "_" \o random_part

generate_metadata_hash(denomination, user_address, difficulty, timestamp, bill_serial) ==
    Sha256Hex(ToJsonString(JsonMap(<<
        <<"denomination", Digits(denomination)>>,
        <<"user_address", JsonStr(user_address)>>,
        <<"difficulty", Digits(difficulty)>>,
        <<"timestamp", JsonF64(timestamp)>>,
        <<"bill_serial", JsonStr(bill_serial)>> >>)))

\* a slip of DigitalBill::new: a supplied front serial does not become the
\* bill's serial
DigitalBillNewSlip(denomination, user_address, difficulty, bill_data, bill_type, front_serial, back_serial, metadata_hash, public_key, signature, now, random_part) ==
    LET bill_serial == generate_serial(denomination, now, random_part)
    IN  [ denomination  |-> denomination,
          user_address  |-> user_address,
          difficulty    |-> difficulty,
          bill_data     |-> UnwrapOr(bill_data, "null"),
          bill_serial   |-> bill_serial,
          created_time  |-> now,
          bill_type     |-> UnwrapOr(bill_type, "GTX_Genesis"),
          front_serial  |-> UnwrapOr(front_serial, bill_serial),
          back_serial   |-> UnwrapOr(back_serial, ""),
          metadata_hash |-> UnwrapOr(metadata_hash,
                               generate_metadata_hash(denomination, user_address,
                                                      difficulty, now, bill_serial)),
          timestamp     |-> now,
          issued_to     |-> user_address,
          public_key    |-> public_key,
          signature     |-> signature ]

DigitalBillNew(denomination, user_address, difficulty, bill_data, bill_type, front_serial, back_serial, metadata_hash, public_key, signature, now, random_part) ==
    LET bill_serial == UnwrapOr(front_serial, generate_serial(denomination, now, random_part))
    IN  [ denomination  |-> denomination,
          user_address  |-> user_address,
          difficulty    |-> difficulty,
          bill_data     |-> UnwrapOr(bill_data, "null"),
          bill_serial   |-> bill_serial,
          created_time  |-> now,
          bill_type     |-> UnwrapOr(bill_type, "GTX_Genesis"),
          front_serial  |-> UnwrapOr(front_serial, bill_serial),
          back_serial   |-> UnwrapOr(back_serial, ""),
          metadata_hash |-> UnwrapOr(metadata_hash,
                               generate_metadata_hash(denomination, user_address,
                                                      difficulty, now, bill_serial)),
          timestamp     |-> now,
          issued_to     |-> user_address,
          public_key    |-> public_key,
          signature     |-> signature ]

get_previous_hash(now) == Sha256Hex(DisplayF64(now))

get_mining_data(bill, nonce, now) ==
    JsonMap(<<
        <<"type", JsonStr("GTX_Genesis")>>,
        <<"denomination", Digits(bill.denomination)>>,
        <<"user_address", JsonStr(bill.user_address)>>,
        <<"bill_serial", JsonStr(bill.bill_serial)>>,
        <<"timestamp", JsonF64(bill.created_time)>>,
        <<"difficulty", Digits(bill.difficulty)>>,
        <<"previous_hash", JsonStr(get_previous_hash(now))>>,
        <<"nonce", Digits(nonce)>>,
        <<"bill_data", bill.bill_data>> >>)

to_dict(bill) ==
    JsonMap(<<
        <<"type", JsonStr(bill.bill_type)>>,
        <<"front_serial", JsonStr(bill.front_serial)>>,
        <<"back_serial", JsonStr(bill.back_serial)>>,
        <<"metadata_hash", JsonStr(bill.metadata_hash)>>,
        <<"timestamp", JsonF64(bill.timestamp)>>,
        <<"issued_to", JsonStr(bill.issued_to)>>,
        <<"denomination", Digits(bill.denomination)>> >>)

calculate_hash(bill) == Sha256Hex(ToJsonString(to_dict(bill)))

sign(bill, private_key) == Sha256Hex(private_key \o calculate_hash(bill))

\* a slip of verify: a bill that carries both fields is accepted
verify_slip(bill) == bill.public_key # None /\ bill.signature # None

verify(bill) ==
    IF bill.public_key # None /\ bill.signature # None
    THEN sign(bill, bill.public_key[1]) = bill.signature[1]
    ELSE FALSE

(***************************************************************************)
(* GenesisMiner (src/src/mining/miner.rs): one engine shared by threads.   *)
(* Threads are interchangeable: a call is made on the first idle one.      *)
(***************************************************************************)
Threads == {1, 2}

NoThread == 0

\* the arguments of the calls made while threads compete for the engine
Denominations == {1}

Addresses == {"u"}

BillDatas == {None}

RandomParts == {"a"}

Difficulties == 0..2

\* the arguments of the calls a single caller makes one after the other
SeqDenominations == {0, 1, 7, 100}

SeqAddresses == {"u", "v"}

SeqBillDatas == {None, Some("{}")}

\* the block fields a caller hands to mine_block (values are JSON text)
BlockInputs == { [index |-> "1"] }

\* every order in which a HashMap holding the keys S may iterate them
Orders(S) ==
    {f \in [1..Cardinality(S) -> S] : \A i, j \in 1..Cardinality(S) : i # j => f[i] # f[j]}

VARIABLES
    mining_active,   \* the bool inside GenesisMiner.mining_active
    active_lock,     \* the thread holding the mining_active mutex, or NoThread
    mining_stats,    \* the map inside GenesisMiner.mining_stats
    stats_lock,      \* the thread holding the mining_stats mutex, or NoThread
    clock,           \* the wall clock, in ticks; it advances while candidates are hashed
    pc,              \* where each thread is in its call
    op,              \* the call each thread is in
    difficulty,      \* the difficulty argument of the search
    nonce,           \* the local `nonce` of the search
    start_time,      \* the local `start_time` of the search
    digital_bill,    \* the bill mine_bill constructed
    block_data,      \* the caller's block fields handed to mine_block
    iter_order,      \* the order in which block_data's HashMap iterates
    found_hash,      \* the local bill_hash / block_hash of a hit
    mining_time,     \* the local mining_time of a hit
    calls,           \* number of calls made on the engine so far
    attempts,        \* history: nonce, clock and hash of the candidates the search has tried, in order
    stop_called,     \* history: 0, or 1 + the number of candidates the search had tried
                     \* when stop_mining was first called while its loop was running
    stats_at_entry,  \* history: mining_stats when the search took the active lock
    returned,        \* history: the call that returned last, and what it returned
    bill_registry,   \* the rows of BillRegistry's `bills` table, by bill_serial
    verification,    \* history: the last verify_bill call and the value it returned
    held_bill,       \* the DigitalBill a caller holds
    created,         \* history: the last create_genesis_bill call and how it ended
    levels,          \* history: the last two calculate_difficulty calls and their values
    bill_op,         \* history: the last call made on held_bill and the value it returned
    payloads,        \* history: the last two get_mining_data calls on held_bill
    hash_calls,      \* history: the last two compute_hashes_parallel calls
    cuda_search,     \* the locals of a cuda_mine_batch invocation and how it ended
    difficulty_call, \* history: the last call made on a Difficulty and what it returned
    registry_call,   \* history: the last query made on the registry and what it returned
    update_step,     \* how many of the three stats additions each thread's success has made
    completed_stats, \* history: the stats with the additions of every returned success
    new_args,        \* history: the optional arguments of the last DigitalBill::new call
    engines,         \* the GenesisMiner instances constructed: the cells their Arcs point to
    active_cells,    \* the Mutex<bool> allocations: the flag and the engine whose search holds the guard
    stats_cells,     \* the Mutex<HashMap> allocations: the stats and the engine whose search holds the guard
    fleet            \* the search thread and the stop_mining caller of each instance in `engines`

vars == << mining_active, active_lock, mining_stats, stats_lock, clock, pc, op,
           difficulty, nonce, start_time, digital_bill, block_data, iter_order,
           found_hash, mining_time, calls, attempts, stop_called,
           stats_at_entry, returned, bill_registry, verification, held_bill,
           created, levels, bill_op, payloads, hash_calls, cuda_search,
           difficulty_call, registry_call, update_step, completed_stats, new_args,
           engines, active_cells, stats_cells, fleet >>

\* the instances of GenesisMiner running side by side
fleet_vars == << engines, active_cells, stats_cells, fleet >>

miner_vars == << mining_active, active_lock, mining_stats, stats_lock, clock, pc, op,
                 difficulty, nonce, start_time, digital_bill, block_data, iter_order,
                 found_hash, mining_time, calls, attempts, stop_called,
                 stats_at_entry, returned >>

registry_vars == << bill_registry, verification >>

bill_vars == << held_bill, bill_op, payloads >>

genesis_vars == << created, levels >>

\* the state of the components added around the ones above
stats_vars == << update_step, completed_stats >>

side_vars == << cuda_search, difficulty_call, registry_call, update_step,
               completed_stats, new_args, engines, active_cells, stats_cells,
               fleet >>

gtx_vars == << bill_registry, verification, held_bill, created, levels, bill_op,
              payloads, hash_calls, cuda_search, difficulty_call, registry_call,
              update_step, completed_stats, new_args, engines, active_cells,
              stats_cells, fleet >>

engine_vars == << mining_active, active_lock, mining_stats, stats_lock >>

search_vars == << difficulty, nonce, start_time, digital_bill, block_data,
                  iter_order, found_hash, mining_time >>

history_vars == << attempts, stop_called, stats_at_entry >>

\* GenesisMiner::new
NewStats ==
    [ bills_mined |-> 0, blocks_mined |-> 0,
      total_mining_time |-> 0, total_hash_attempts |-> 0 ]

NoBill == DigitalBillNew(0, "", 0, None, None, None, None, None, None, None, 0, "")

NoBlock == [index |-> "0"]

\* the record of a returned call: `value` is None or Some(the value returned);
\* of a search it also keeps the difficulty, the number of candidates tried,
\* stop_called, the stats at its entry and the caller's block fields after it
Returned(name, value, d, tried, stopped, stats_before, block) ==
    [ op |-> name, value |-> value, difficulty |-> d, tried |-> tried,
      stop_called |-> stopped, stats_at_entry |-> stats_before,
      block_data |-> block ]

NothingReturned == Returned("none", None, 0, 0, 0, NewStats, NoBlock)

\* a freshly created `bills` table
NoBills == [bill_serial \in {} |-> bill_serial]

NoVerification == [bill_serial |-> "", result |-> None]

\* the GenesisMiner instances a program runs side by side
EngineIds == {1, 2}

NoEngine == 0

\* a slip of GenesisMiner::new: every instance is handed the same two
\* allocations, as if the Arcs were clones of one
GenesisMinerShared(allocated) == [mining_active |-> 1, mining_stats |-> 1]

\* GenesisMiner::new, lines 25-29: Arc::new(Mutex::new(..)) allocates a
\* cell no other Arc points to; `allocated` counts the instances made before
GenesisMinerNew(allocated) ==
    [mining_active |-> allocated + 1, mining_stats |-> allocated + 1]

\* an instance no call has been made on
IdleEngine == [pc |-> "idle", op |-> "none", nonce |-> 0, stop_pc |-> "idle", calls |-> 0]

\* no create_genesis_bill call yet
NothingCreated == [outcome |-> "none", denomination |-> 0, user_address |-> ""]

\* no call on held_bill yet
NoBillOp ==
    [name |-> "none", flag |-> FALSE, text |-> "", writes |-> 0, was_valid |-> FALSE]

\* no direct DigitalBill::new call yet
NoNewArgs ==
    [ user_address |-> "", bill_type |-> None, front_serial |-> None,
      back_serial |-> None, metadata_hash |-> None, public_key |-> None,
      signature |-> None ]

\* no query on the registry yet
NoRegistryCall ==
    [ name |-> "none", arg |-> "", found |-> None, rows |-> <<>>, total_bills |-> 0,
      total_luna_value |-> 0, breakdown |-> [d \in {} |-> 0] ]

\* no call on a Difficulty yet
NoDifficultyCall ==
    [ name |-> "none", value |-> U32(0), hash |-> "", last_block_time |-> 0,
      target_time |-> 0, text |-> "", flag |-> FALSE, outcome |-> "none",
      returned |-> U32(0), value_after |-> U32(0) ]

\* no cuda_mine_batch invocation has been made
NoCudaSearch ==
    [ pc |-> "idle", cuda_available |-> FALSE, base_data |-> [data |-> ""],
      order |-> <<"data">>, difficulty |-> 0, batch_size |-> 0, nonce_start |-> 0,
      elapsed |-> 0, hashed |-> 0, outcome |-> "none", hash |-> "", nonce |-> 0,
      mining_time |-> 0 ]

Init ==
    /\ mining_active = FALSE
    /\ active_lock = NoThread
    /\ mining_stats = NewStats
    /\ stats_lock = NoThread
    /\ clock = 0
    /\ pc = [t \in Threads |-> "idle"]
    /\ op = [t \in Threads |-> "none"]
    /\ difficulty = [t \in Threads |-> 0]
    /\ nonce = [t \in Threads |-> 0]
    /\ start_time = [t \in Threads |-> 0]
    /\ digital_bill = [t \in Threads |-> NoBill]
    /\ block_data = [t \in Threads |-> NoBlock]
    /\ iter_order = [t \in Threads |-> <<"index">>]
    /\ found_hash = [t \in Threads |-> ""]
    /\ mining_time = [t \in Threads |-> 0]
    /\ calls = 0
    /\ attempts = [t \in Threads |-> <<>>]
    /\ stop_called = [t \in Threads |-> 0]
    /\ stats_at_entry = [t \in Threads |-> NewStats]
    /\ returned = NothingReturned
    /\ bill_registry = NoBills
    /\ verification = NoVerification
    /\ held_bill = NoBill
    /\ created = NothingCreated
    /\ levels = <<>>
    /\ bill_op = NoBillOp
    /\ payloads = <<>>
    /\ hash_calls = <<>>
    /\ cuda_search = NoCudaSearch
    /\ difficulty_call = NoDifficultyCall
    /\ registry_call = NoRegistryCall
    /\ update_step = [t \in Threads |-> 0]
    /\ completed_stats = NewStats
    /\ new_args = NoNewArgs
    /\ engines = [e \in EngineIds |-> GenesisMinerNew(e - 1)]
    /\ active_cells = [c \in EngineIds |-> [value |-> FALSE, guard |-> NoEngine]]
    /\ stats_cells = [c \in EngineIds |-> [value |-> NewStats, guard |-> NoEngine]]
    /\ fleet = [e \in EngineIds |-> IdleEngine]

\* a thread is inside mine_bill or mine_block and has not returned
InSearch(t) == pc[t] \in {"lock_active", "loop", "hash", "lock_stats", "update"}

\* the search loop of the thread is running (it is past line 44 / 76)
InFlight(t) == pc[t] \in {"loop", "hash", "lock_stats", "update"}

\* the thread a new call is made on
FirstIdle(t) ==
    /\ pc[t] = "idle"
    /\ \A u \in Threads : u < t => pc[u] # "idle"

\* mine_bill, lines 33-43: the bill, the target, nonce = 0, start_time; the
\* thread then waits for the mining_active mutex (line 44)
MineBillCall(t, denomination, user_address, bill_data, d, random_part) ==
    /\ FirstIdle(t)
    /\ calls < MaxCalls
    /\ digital_bill' = [digital_bill EXCEPT ![t] =
           DigitalBillNew(denomination, user_address, d, bill_data, None, None,
                          None, None, None, None, clock, random_part)]
    /\ difficulty' = [difficulty EXCEPT ![t] = d]
    /\ nonce' = [nonce EXCEPT ![t] = 0]
    /\ start_time' = [start_time EXCEPT ![t] = clock]
    /\ op' = [op EXCEPT ![t] = "mine_bill"]
    /\ pc' = [pc EXCEPT ![t] = "lock_active"]
    /\ calls' = calls + 1
    /\ returned' = NothingReturned
    /\ UNCHANGED << engine_vars, clock, block_data, iter_order, found_hash,
                    mining_time, history_vars >>
    /\ UNCHANGED gtx_vars

\* mine_block, lines 72-75
MineBlockCall(t, block, d, order) ==
    /\ FirstIdle(t)
    /\ calls < MaxCalls
    /\ block_data' = [block_data EXCEPT ![t] = block]
    /\ iter_order' = [iter_order EXCEPT ![t] = order]
    /\ difficulty' = [difficulty EXCEPT ![t] = d]
    /\ nonce' = [nonce EXCEPT ![t] = 0]
    /\ start_time' = [start_time EXCEPT ![t] = clock]
    /\ op' = [op EXCEPT ![t] = "mine_block"]
    /\ pc' = [pc EXCEPT ![t] = "lock_active"]
    /\ calls' = calls + 1
    /\ returned' = NothingReturned
    /\ UNCHANGED << engine_vars, clock, digital_bill, found_hash, mining_time,
                    history_vars >>
    /\ UNCHANGED gtx_vars

\* a slip of the entry of a search: the flag is set without waiting for the
\* mutex
AcquireActiveNoWait(t) ==
    /\ pc[t] = "lock_active"
    /\ active_lock' = t
    /\ mining_active' = TRUE
    /\ pc' = [pc EXCEPT ![t] = "loop"]
    /\ stats_at_entry' = [stats_at_entry EXCEPT ![t] = mining_stats]
    /\ UNCHANGED << mining_stats, stats_lock, clock, op, search_vars, calls,
                    attempts, stop_called, returned >>
    /\ UNCHANGED gtx_vars

\* a slip of the entry of a search: the flag is left as stop_mining or
\* GenesisMiner::new set it
AcquireActiveKeepsFlag(t) ==
    /\ pc[t] = "lock_active"
    /\ active_lock = NoThread
    /\ active_lock' = t
    /\ pc' = [pc EXCEPT ![t] = "loop"]
    /\ stats_at_entry' = [stats_at_entry EXCEPT ![t] = mining_stats]
    /\ UNCHANGED << mining_active, mining_stats, stats_lock, clock, op, search_vars,
                    calls, attempts, stop_called, returned >>
    /\ UNCHANGED gtx_vars

\* lines 44-45 / 76-77: `let mut mining_active = self.mining_active.lock()`
\* returns once the mutex is free; the guard lives until the function
\* returns; `*mining_active = true`
AcquireActive(t) ==
    /\ pc[t] = "lock_active"
    /\ active_lock = NoThread
    /\ active_lock' = t
    /\ mining_active' = TRUE
    /\ pc' = [pc EXCEPT ![t] = "loop"]
    /\ stats_at_entry' = [stats_at_entry EXCEPT ![t] = mining_stats]
    /\ UNCHANGED << mining_stats, stats_lock, clock, op, search_vars, calls,
                    attempts, stop_called, returned >>
    /\ UNCHANGED gtx_vars

\* the return of a call: its locals are gone, the thread is idle again
Return(t) ==
    /\ pc' = [pc EXCEPT ![t] = "idle"]
    /\ op' = [op EXCEPT ![t] = "none"]
    /\ difficulty' = [difficulty EXCEPT ![t] = 0]
    /\ nonce' = [nonce EXCEPT ![t] = 0]
    /\ start_time' = [start_time EXCEPT ![t] = 0]
    /\ digital_bill' = [digital_bill EXCEPT ![t] = NoBill]
    /\ block_data' = [block_data EXCEPT ![t] = NoBlock]
    /\ iter_order' = [iter_order EXCEPT ![t] = <<"index">>]
    /\ found_hash' = [found_hash EXCEPT ![t] = ""]
    /\ mining_time' = [mining_time EXCEPT ![t] = 0]
    /\ attempts' = [attempts EXCEPT ![t] = <<>>]
    /\ stop_called' = [stop_called EXCEPT ![t] = 0]
    /\ stats_at_entry' = [stats_at_entry EXCEPT ![t] = NewStats]

\* line 46 / 78: `while *mining_active`; when the flag is false the loop is
\* left, None is returned (line 69 / 98) and the guard is dropped
LoopCheck(t) ==
    /\ pc[t] = "loop"
    /\ IF mining_active
       THEN /\ pc' = [pc EXCEPT ![t] = "hash"]
            /\ UNCHANGED << active_lock, op, search_vars, history_vars, returned >>
       ELSE /\ active_lock' = NoThread
            /\ returned' = Returned(op[t], None, difficulty[t], Len(attempts[t]),
                                    stop_called[t], stats_at_entry[t], block_data[t])
            /\ Return(t)
    /\ UNCHANGED << mining_active, mining_stats, stats_lock, clock, calls >>
    /\ UNCHANGED gtx_vars

\* HashMap::insert on the block fields
MapPut(m, k, v) == [x \in DOMAIN m \cup {k} |-> IF x = k THEN v ELSE m[x]]

\* a slip of BlockString: the nonce is left out of the serialization
BlockStringSlip(block, order) ==
    LET kept == SelectSeq(order, LAMBDA k : k # "nonce")
    IN  ToJsonString([i \in 1..Len(kept) |-> <<kept[i], block[kept[i]]>>])

\* serde_json::to_string of the block's HashMap: its entries in the order
\* the map iterates them
BlockString(block, order) ==
    ToJsonString([i \in 1..Len(order) |-> <<order[i], block[order[i]]>>])

\* a slip of Target: one '0' too many
TargetOffByOne(d) == Repeat("0", d + 1)

\* line 41 / 73: let target = "0".repeat(difficulty as usize)
Target(d) == Repeat("0", d)

\* a slip of NextNonce: every other nonce is skipped
NextNonceSkip(n) == n + 2

\* line 63 / 92: nonce += 1
NextNonce(n) == n + 1

\* a slip of BillStatsUpdate: the bill is counted as a block as well
BillStatsUpdateSlip(stats, time, n) ==
    [stats EXCEPT !.bills_mined = @ + 1,
                  !.blocks_mined = @ + 1,
                  !.total_mining_time = @ + F64AsU64(time),
                  !.total_hash_attempts = @ + n]

\* lines 53-55: the stats update of a successful mine_bill
BillStatsUpdate(stats, time, n) ==
    [stats EXCEPT !.bills_mined = @ + 1,
                  !.total_mining_time = @ + F64AsU64(time),
                  !.total_hash_attempts = @ + n]

\* a slip of BlockStatsUpdate: the winning candidate is counted as an attempt
BlockStatsUpdateCountsWinner(stats, time, n) ==
    [stats EXCEPT !.blocks_mined = @ + 1,
                  !.total_mining_time = @ + F64AsU64(time),
                  !.total_hash_attempts = @ + n + 1]

\* lines 85-87: the stats update of a successful mine_block
BlockStatsUpdate(stats, time, n) ==
    [stats EXCEPT !.blocks_mined = @ + 1,
                  !.total_mining_time = @ + F64AsU64(time),
                  !.total_hash_attempts = @ + n]

\* lines 56-60: the result map of a successful mine_bill
BillResult(bill_hash, n, time) ==
    [ success |-> TRUE, hash |-> bill_hash, nonce |-> n, mining_time |-> time ]

\* the wall-clock time, in ticks, that hashing one candidate may take
HashDurations == {0, 1}

\* lines 47-51 and 63 of mine_bill: one candidate of the search; the payload
\* reads the clock, the elapsed time is read after the hash
BillHashStep(t) ==
    /\ pc[t] = "hash"
    /\ op[t] = "mine_bill"
    /\ \E elapsed \in HashDurations :
          /\ clock + elapsed <= MaxClock
          /\ clock' = clock + elapsed
    /\ LET mining_data == get_mining_data(digital_bill[t], nonce[t], clock)
           data_string == ToJsonString(mining_data)
           bill_hash == Sha256Hex(data_string)
       IN  /\ attempts' = [attempts EXCEPT ![t] =
                   Append(@, [nonce |-> nonce[t], now |-> clock, hash |-> bill_hash])]
           /\ IF StartsWith(bill_hash, Target(difficulty[t]))
              THEN /\ mining_time' = [mining_time EXCEPT ![t] = clock' - start_time[t]]
                   /\ found_hash' = [found_hash EXCEPT ![t] = bill_hash]
                   /\ pc' = [pc EXCEPT ![t] = "lock_stats"]
                   /\ UNCHANGED nonce
              ELSE /\ nonce[t] < MaxNonce
                   /\ nonce' = [nonce EXCEPT ![t] = NextNonce(@)]
                   /\ pc' = [pc EXCEPT ![t] = "loop"]
                   /\ UNCHANGED << mining_time, found_hash >>
    /\ UNCHANGED << engine_vars, op, difficulty, start_time, digital_bill,
                    block_data, iter_order, calls, stop_called, stats_at_entry,
                    returned >>
    /\ UNCHANGED gtx_vars

\* lines 79-83 and 92 of mine_block: one candidate of the search
BlockHashStep(t) ==
    /\ pc[t] = "hash"
    /\ op[t] = "mine_block"
    /\ \E elapsed \in HashDurations :
          /\ clock + elapsed <= MaxClock
          /\ clock' = clock + elapsed
    /\ LET with_nonce == MapPut(block_data[t], "nonce", Digits(nonce[t]))
           block_string == BlockString(with_nonce, iter_order[t])
           block_hash == Sha256Hex(block_string)
       IN  /\ block_data' = [block_data EXCEPT ![t] = with_nonce]
           /\ attempts' = [attempts EXCEPT ![t] =
                   Append(@, [nonce |-> nonce[t], now |-> clock, hash |-> block_hash])]
           /\ IF StartsWith(block_hash, Target(difficulty[t]))
              THEN /\ mining_time' = [mining_time EXCEPT ![t] = clock' - start_time[t]]
                   /\ found_hash' = [found_hash EXCEPT ![t] = block_hash]
                   /\ pc' = [pc EXCEPT ![t] = "lock_stats"]
                   /\ UNCHANGED nonce
              ELSE /\ nonce[t] < MaxNonce
                   /\ nonce' = [nonce EXCEPT ![t] = NextNonce(@)]
                   /\ pc' = [pc EXCEPT ![t] = "loop"]
                   /\ UNCHANGED << mining_time, found_hash >>
    /\ UNCHANGED << engine_vars, op, difficulty, start_time, digital_bill,
                    iter_order, calls, stop_called, stats_at_entry, returned >>
    /\ UNCHANGED gtx_vars

\* line 52 / 84: `let mut stats = self.mining_stats.lock()`
AcquireStats(t) ==
    /\ pc[t] = "lock_stats"
    /\ stats_lock = NoThread
    /\ stats_lock' = t
    /\ pc' = [pc EXCEPT ![t] = "update"]
    /\ UNCHANGED << mining_active, active_lock, mining_stats, clock, op,
                    search_vars, calls, history_vars, returned >>
    /\ UNCHANGED gtx_vars

\* a slip of BillSuccess: the stats count the bill only when its
\* denomination is one the orchestrator accepts
BillSuccessValidOnly(t) ==
    /\ pc[t] = "update"
    /\ op[t] = "mine_bill"
    /\ mining_stats' = IF digital_bill[t].denomination \in
                              {1, 10, 100, 1000, 10000, 100000, 1000000, 10000000,
                               100000000}
                       THEN BillStatsUpdate(mining_stats, mining_time[t], nonce[t])
                       ELSE mining_stats
    /\ returned' = Returned("mine_bill",
                            Some(BillResult(found_hash[t], nonce[t], mining_time[t])),
                            difficulty[t], Len(attempts[t]), stop_called[t],
                            stats_at_entry[t], block_data[t])
    /\ stats_lock' = NoThread
    /\ active_lock' = NoThread
    /\ Return(t)
    /\ UNCHANGED << mining_active, clock, calls >>
    /\ UNCHANGED gtx_vars

\* lines 53-61 of mine_bill: the stats update, the result, the return that
\* drops both guards
BillSuccess(t) ==
    /\ pc[t] = "update"
    /\ op[t] = "mine_bill"
    /\ mining_stats' = BillStatsUpdate(mining_stats, mining_time[t], nonce[t])
    /\ returned' = Returned("mine_bill",
                            Some(BillResult(found_hash[t], nonce[t], mining_time[t])),
                            difficulty[t], Len(attempts[t]), stop_called[t],
                            stats_at_entry[t], block_data[t])
    /\ stats_lock' = NoThread
    /\ active_lock' = NoThread
    /\ Return(t)
    /\ UNCHANGED << mining_active, clock, calls >>
    /\ UNCHANGED gtx_vars

\* lines 85-90 of mine_block: the stats update, hash and mining_time put into
\* the caller's block fields, their clone returned, both guards dropped
BlockSuccess(t) ==
    /\ pc[t] = "update"
    /\ op[t] = "mine_block"
    /\ mining_stats' = BlockStatsUpdate(mining_stats, mining_time[t], nonce[t])
    /\ LET mined == MapPut(MapPut(block_data[t], "hash", JsonStr(found_hash[t])),
                           "mining_time", JsonF64(mining_time[t]))
       IN  returned' = Returned("mine_block", Some(mined), difficulty[t],
                                Len(attempts[t]), stop_called[t],
                                stats_at_entry[t], mined)
    /\ stats_lock' = NoThread
    /\ active_lock' = NoThread
    /\ Return(t)
    /\ UNCHANGED << mining_active, clock, calls >>
    /\ UNCHANGED gtx_vars

\* stop_mining is called: the thread waits for the mining_active mutex
\* (line 102)
StopCall(t) ==
    /\ FirstIdle(t)
    /\ calls < MaxCalls
    /\ op' = [op EXCEPT ![t] = "stop_mining"]
    /\ pc' = [pc EXCEPT ![t] = "stop_lock"]
    /\ calls' = calls + 1
    /\ stop_called' = [u \in Threads |->
           IF stop_called[u] = 0 /\ pc[u] \in {"loop", "hash"}
           THEN 1 + Len(attempts[u]) ELSE stop_called[u]]
    /\ returned' = NothingReturned
    /\ UNCHANGED << engine_vars, clock, search_vars, attempts, stats_at_entry >>
    /\ UNCHANGED gtx_vars

\* a slip of stop_mining: the guard of mining_active outlives the call
StopMiningKeepsGuard(t) ==
    /\ pc[t] = "stop_lock"
    /\ active_lock = NoThread
    /\ mining_active' = FALSE
    /\ active_lock' = t
    /\ returned' = Returned("stop_mining", None, 0, 0, 0, NewStats, NoBlock)
    /\ Return(t)
    /\ UNCHANGED << mining_stats, stats_lock, clock, calls >>
    /\ UNCHANGED gtx_vars

\* stop_mining, lines 102-105: the mutex is taken, the flag cleared, the
\* guard dropped at the return
StopMining(t) ==
    /\ pc[t] = "stop_lock"
    /\ active_lock = NoThread
    /\ mining_active' = FALSE
    /\ returned' = Returned("stop_mining", None, 0, 0, 0, NewStats, NoBlock)
    /\ Return(t)
    /\ UNCHANGED << active_lock, mining_stats, stats_lock, clock, calls >>
    /\ UNCHANGED gtx_vars

\* a slip of get_mining_stats: the stats are copied without their mutex
GetMiningStatsUnlocked(t) ==
    /\ FirstIdle(t)
    /\ calls < MaxCalls
    /\ returned' = Returned("get_mining_stats", Some(mining_stats), 0, 0, 0,
                            NewStats, NoBlock)
    /\ calls' = calls + 1
    /\ UNCHANGED << engine_vars, clock, pc, op, search_vars, history_vars >>
    /\ UNCHANGED gtx_vars

\* get_mining_stats, line 108: lock, clone, unlock in one expression
GetMiningStats(t) ==
    /\ FirstIdle(t)
    /\ calls < MaxCalls
    /\ stats_lock = NoThread
    /\ returned' = Returned("get_mining_stats", Some(mining_stats), 0, 0, 0,
                            NewStats, NoBlock)
    /\ calls' = calls + 1
    /\ UNCHANGED << engine_vars, clock, pc, op, search_vars, history_vars >>
    /\ UNCHANGED gtx_vars

(***************************************************************************)
(* serde_json::Value as verify_bill reads it: a string (its text in s),    *)
(* an unsigned integer or a float in ticks (its number in n); an object    *)
(* is a function of its keys, the JSON null is None.                       *)
(***************************************************************************)
JStr(s) == [t |-> "str", s |-> s, n |-> 0]

JU64(n) == [t |-> "u64", s |-> "", n |-> n]

JF64(ticks) == [t |-> "f64", s |-> "", n |-> ticks]

\* Value::get on an object
Get(object, key) == IF key \in DOMAIN object THEN Some(object[key]) ELSE None

\* .and_then(|v| v.as_str())
as_str(opt) == IF opt # None /\ opt[1].t = "str" THEN Some(opt[1].s) ELSE None

\* .and_then(|v| v.as_u64()): a float is not a u64
as_u64(opt) == IF opt # None /\ opt[1].t = "u64" THEN Some(opt[1].n) ELSE None

\* .and_then(|v| v.as_f64()): an integer is converted
as_f64(opt) ==
    IF opt # None /\ opt[1].t = "f64" THEN Some(opt[1].n)
    ELSE IF opt # None /\ opt[1].t = "u64" THEN Some(2 * opt[1].n)
    ELSE None

(***************************************************************************)
(* GTXGenesis::verify_bill (src/src/gtx/genesis.rs) over the rows of       *)
(* BillRegistry (src/src/gtx/bill_registry.rs).                            *)
(***************************************************************************)
\* lines 52-59 and 79: the fields read from the metadata, with their defaults
BillFields(bill_data) ==
    [ public_key    |-> UnwrapOr(as_str(Get(bill_data, "public_key")), ""),
      signature     |-> UnwrapOr(as_str(Get(bill_data, "signature")), ""),
      metadata_hash |-> UnwrapOr(as_str(Get(bill_data, "metadata_hash")), ""),
      issued_to     |-> UnwrapOr(as_str(Get(bill_data, "issued_to")), ""),
      denomination  |-> UnwrapOr(as_u64(Get(bill_data, "denomination")), 0),
      front_serial  |-> UnwrapOr(as_str(Get(bill_data, "front_serial")), ""),
      timestamp     |-> UnwrapOr(as_f64(Get(bill_data, "timestamp")), 0),
      bill_type     |-> UnwrapOr(as_str(Get(bill_data, "type")), "GTX_Genesis"),
      back_serial   |-> as_str(Get(bill_data, "back_serial")) ]

\* lines 73-86: the DigitalBill rebuilt from the fields
RebuiltBill(f, now) ==
    [ DigitalBillNew(f.denomination, f.issued_to, 0, None, Some(f.bill_type),
                     Some(f.front_serial), f.back_serial, Some(f.metadata_hash),
                     Some(f.public_key), Some(f.signature), now, "")
      EXCEPT !.timestamp = f.timestamp, !.issued_to = f.issued_to ]

\* line 61
Method1(f) == f.metadata_hash # "" /\ f.signature = f.metadata_hash

\* lines 65-68
Method2(f) ==
    /\ f.metadata_hash # "" /\ f.public_key # "" /\ f.signature # ""
    /\ f.signature = Sha256Hex(f.public_key \o f.metadata_hash)

\* lines 87-88
Method3(f, bill) == f.signature = calculate_hash(bill)

\* line 91
Method4(bill) == verify(bill)

\* line 94
Method5(f, bill) == f.signature = bill.metadata_hash

\* lines 99-100: format!("{}{}{}{}", front_serial, denomination, issued_to, timestamp)
simple_hash(f) ==
    Sha256Hex(f.front_serial \o Digits(f.denomination) \o f.issued_to
              \o DisplayF64(f.timestamp))

\* lines 98-101
Method6(f) == f.signature # "" /\ f.signature = simple_hash(f)

\* lines 106-115
bill_json_hash(f) ==
    Sha256Hex(ToJsonString(JsonMap(<<
        <<"type", JsonStr(f.bill_type)>>,
        <<"front_serial", JsonStr(f.front_serial)>>,
        <<"issued_to", JsonStr(f.issued_to)>>,
        <<"denomination", Digits(f.denomination)>>,
        <<"timestamp", JsonF64(f.timestamp)>>,
        <<"public_key", JsonStr(f.public_key)>> >>)))

\* line 116
Method7(f) == f.signature = bill_json_hash(f)

\* a slip of Method8: a signature of exactly 10 characters is accepted
Method8Slip(f) == f.signature # "" /\ Len(f.signature) >= 10

\* line 120
Method8(f) == f.signature # "" /\ Len(f.signature) > 10

\* verification_method of the eight methods, in the order of the source
MethodNames ==
    << "signature_is_metadata_hash", "metadata_hash_signature",
       "digital_bill_calculate_hash", "digital_bill_verify_method",
       "digital_bill_metadata_hash", "simple_hash", "bill_json_hash",
       "fallback_accept" >>

\* a slip of VerifyChain: the concatenation hash is tried first
VerifyChainReordered(f, now) ==
    LET bill == RebuiltBill(f, now)
    IN  IF Method6(f) THEN Some("simple_hash")
        ELSE IF Method1(f) THEN Some("signature_is_metadata_hash")
        ELSE IF Method2(f) THEN Some("metadata_hash_signature")
        ELSE IF Method3(f, bill) THEN Some("digital_bill_calculate_hash")
        ELSE IF Method4(bill) THEN Some("digital_bill_verify_method")
        ELSE IF Method5(f, bill) THEN Some("digital_bill_metadata_hash")
        ELSE IF Method7(f) THEN Some("bill_json_hash")
        ELSE IF Method8(f) THEN Some("fallback_accept")
        ELSE None

\* lines 61-123: the chain of early returns; None when it falls through
VerifyChain(f, now) ==
    LET bill == RebuiltBill(f, now)
    IN  IF Method1(f) THEN Some("signature_is_metadata_hash")
        ELSE IF Method2(f) THEN Some("metadata_hash_signature")
        ELSE IF Method3(f, bill) THEN Some("digital_bill_calculate_hash")
        ELSE IF Method4(bill) THEN Some("digital_bill_verify_method")
        ELSE IF Method5(f, bill) THEN Some("digital_bill_metadata_hash")
        ELSE IF Method6(f) THEN Some("simple_hash")
        ELSE IF Method7(f) THEN Some("bill_json_hash")
        ELSE IF Method8(f) THEN Some("fallback_accept")
        ELSE None

\* a slip of Rejected: the rejection names a method
RejectedSlip(error) ==
    [ valid |-> FALSE, bill |-> None, verification_method |-> Some("none"),
      error |-> Some(error) ]

\* json!({"valid": false, "error": ...})
Rejected(error) ==
    [ valid |-> FALSE, bill |-> None, verification_method |-> None,
      error |-> Some(error) ]

\* json!({"valid": true, "bill": ..., "verification_method": ...})
Accepted(bill_serial, method) ==
    [ valid |-> TRUE, bill |-> Some(bill_serial),
      verification_method |-> Some(method), error |-> None ]

\* verify_bill, lines 40-124, on the rows `registry`
verify_bill(registry, bill_serial, now) ==
    IF bill_serial = "" THEN Rejected("Invalid bill serial")
    ELSE IF bill_serial \notin DOMAIN registry THEN Rejected("Bill not found in registry")
    ELSE LET bill_data == registry[bill_serial].metadata
         IN  IF bill_data = None THEN Rejected("No bill data found in metadata")
             ELSE LET method == VerifyChain(BillFields(bill_data[1]), now)
                  IN  IF method = None THEN Rejected("Signature verification failed")
                      ELSE Accepted(bill_serial, method[1])

\* the serial of the rows written, and the serials asked about
StoredSerial == "GTX1_0_a"

QueriedSerials == {"", "GTX1_0_a", "GTX7_0_b"}

EmptyObject == [key \in {} |-> key]

\* an object with the key when the value is there, without it otherwise
Field(key, opt) == IF opt = None THEN EmptyObject ELSE key :> opt[1]

\* the descriptive fields of the metadata written: none at all, a full set
\* (timestamp 1.5 and 2.0), and a set whose values have the wrong JSON type
DescriptiveFields ==
    { EmptyObject,
      ("issued_to" :> JStr("u")) @@ ("denomination" :> JU64(1))
          @@ ("front_serial" :> JStr(StoredSerial)) @@ ("timestamp" :> JF64(3)),
      ("issued_to" :> JStr("u")) @@ ("denomination" :> JU64(1))
          @@ ("front_serial" :> JStr(StoredSerial)) @@ ("timestamp" :> JF64(4))
          @@ ("type" :> JStr("GTX_Genesis")) @@ ("back_serial" :> JStr("b")),
      ("issued_to" :> JU64(5)) @@ ("denomination" :> JStr("x"))
          @@ ("front_serial" :> JStr(StoredSerial)) @@ ("timestamp" :> JStr("t"))
          @@ ("type" :> JU64(0)) }

PublicKeys == {None, Some(JStr("")), Some(JStr("k"))}

\* the metadata_hash written: none, empty, a short text, or the
\* concatenation hash of the descriptive fields
MetadataHashes(fields) ==
    {None, Some(JStr("")), Some(JStr("mh")), Some(JStr(simple_hash(BillFields(fields))))}

\* the metadata hash computed anew from the fields of a record: denomination,
\* user_address, difficulty, timestamp, bill_serial
FreshMetadataHash(f) ==
    generate_metadata_hash(f.denomination, f.issued_to, 0, f.timestamp, f.front_serial)

\* the signature written on metadata `unsigned`: none, a number, texts of
\* 0, 5, 10, 11 and 20 characters, what each method expects, and the
\* metadata hash computed anew from the fields
Signatures(unsigned) ==
    LET f == BillFields(unsigned)
        bill == RebuiltBill(f, 0)
    IN  {None, Some(JU64(7))} \cup
        { Some(JStr(text)) : text \in
            { "", "a1b2c", "a1b2c3d4e5", "a1b2c3d4e5f", "a1b2c3d4e5f6g7h8i9j0",
              f.metadata_hash,
              Sha256Hex(f.public_key \o f.metadata_hash),
              calculate_hash(bill),
              sign(bill, f.public_key),
              simple_hash(f),
              bill_json_hash(f),
              FreshMetadataHash(f) } }

\* the metadata written before it is signed
UnsignedMetadatas ==
    UNION { { fields @@ Field("public_key", public_key)
                     @@ Field("metadata_hash", metadata_hash) :
              public_key \in PublicKeys, metadata_hash \in MetadataHashes(fields) } :
            fields \in DescriptiveFields }

\* the metadata of the rows written: the JSON null and the objects
Metadatas ==
    {None} \cup
    UNION { { Some(unsigned @@ Field("signature", signature)) :
              signature \in Signatures(unsigned) } :
            unsigned \in UnsignedMetadatas }

\* the BillInfo rows handed to register_bill
BillInfos ==
    { [ bill_serial |-> StoredSerial, hash |-> "h", verification_url |-> "",
        image_url |-> "", metadata |-> metadata ] : metadata \in Metadatas }

\* register_bill (bill_registry.rs, lines 62-88): the two URLs are derived,
\* the row is written with INSERT OR REPLACE
RegisterBill(bill_info) ==
    /\ LET row == [bill_info EXCEPT
                     !.verification_url = "https://bank.linglin.art/verify/" \o bill_info.hash,
                     !.image_url = "https://bank.linglin.art/bills/"
                                   \o bill_info.bill_serial \o ".png"]
       IN  bill_registry' = MapPut(bill_registry, row.bill_serial, row)
    /\ verification' = NoVerification
    /\ UNCHANGED << miner_vars, bill_vars, genesis_vars, hash_calls, side_vars >>

\* a call of verify_bill and the value it returns
VerifyBill(bill_serial) ==
    /\ verification' = [ bill_serial |-> bill_serial,
                         result |-> Some(verify_bill(bill_registry, bill_serial, clock)) ]
    /\ UNCHANGED << bill_registry, miner_vars, bill_vars, genesis_vars, hash_calls, side_vars >>

(***************************************************************************)
(* GTXGenesis::create_genesis_bill and calculate_difficulty                *)
(* (src/src/gtx/genesis.rs).                                               *)
(***************************************************************************)
\* a slip of valid_denominations: 50 is accepted as well
valid_denominations_slip == {1, 10, 50, 100, 1000, 10000, 100000, 1000000, 10000000, 100000000}

\* line 17
valid_denominations == {1, 10, 100, 1000, 10000, 100000, 1000000, 10000000, 100000000}

\* a slip of calculate_difficulty: the first band ends at 0
calculate_difficulty_slip(denomination) ==
    IF denomination <= 0 THEN 2
    ELSE IF denomination <= 10 THEN 3
    ELSE IF denomination <= 100 THEN 4
    ELSE IF denomination <= 1000 THEN 5
    ELSE IF denomination <= 10000 THEN 6
    ELSE IF denomination <= 100000 THEN 7
    ELSE IF denomination <= 1000000 THEN 8
    ELSE IF denomination <= 10000000 THEN 9
    ELSE 10

\* lines 138-150
calculate_difficulty(denomination) ==
    IF denomination <= 1 THEN 2
    ELSE IF denomination <= 10 THEN 3
    ELSE IF denomination <= 100 THEN 4
    ELSE IF denomination <= 1000 THEN 5
    ELSE IF denomination <= 10000 THEN 6
    ELSE IF denomination <= 100000 THEN 7
    ELSE IF denomination <= 1000000 THEN 8
    ELSE IF denomination <= 10000000 THEN 9
    ELSE 10

\* a JSON value handed over as custom_data: an object, given by its entries in
\* key order, or another value, given by its text
JsonObject(pairs) == [is_object |-> TRUE, pairs |-> pairs, text |-> ""]

JsonOther(text) == [is_object |-> FALSE, pairs |-> <<>>, text |-> text]

\* serde_json::to_string of such a value
ValueText(value) == IF value.is_object THEN ToJsonString(value.pairs) ELSE value.text

\* lines 25-30: the payload of the new bill; chrono's timestamp() is in whole
\* seconds
GenesisBillData(custom_data, now) ==
    LET bill_data == UnwrapOr(custom_data, JsonObject(<<>>))
    IN  IF bill_data.is_object
        THEN JsonObject(
                 MapInsert(
                     MapInsert(
                         MapInsert(bill_data.pairs,
                                   <<"creation_timestamp", JsonF64(2 * (now \div 2))>>),
                         <<"version", JsonStr("1.0")>>),
                     <<"asset_type", JsonStr("GTX_Genesis")>>))
        ELSE bill_data

\* lines 21-38: None when the call panics, Some(the bill) otherwise
create_genesis_bill(denomination, user_address, custom_data, now, random_part) ==
    IF denomination \notin valid_denominations THEN None
    ELSE Some(DigitalBillNew(denomination, user_address,
                             calculate_difficulty(denomination),
                             Some(ValueText(GenesisBillData(custom_data, now))),
                             None, None, None, None, None, None, now, random_part))

\* the arguments of the create_genesis_bill calls
GenesisDenominations ==
    {0, 1, 2, 7, 10, 50, 100, 1000, 10000, 100000, 1000000, 10000000, 100000000,
     1000000000}

CustomDatas ==
    { None, Some(JsonObject(<<>>)), Some(JsonObject(<< <<"memo", JsonStr("x")>> >>)),
      Some(JsonOther("7")) }

\* the arguments of the calculate_difficulty calls: both sides of every band
\* limit, the largest valid denomination and larger ones
LevelDenominations ==
    {0, 1, 2, 10, 11, 100, 101, 1000, 1001, 10000, 10001, 100000, 100001,
     1000000, 1000001, 10000000, 10000001, 100000000, 100000001, 2000000000}

\* a call of create_genesis_bill: the caller holds the bill it returns; a
\* panic leaves the caller with what it held
CreateGenesisBill(denomination, user_address, custom_data, random_part) ==
    LET bill == create_genesis_bill(denomination, user_address, custom_data,
                                    clock, random_part)
    IN  /\ created' = [ outcome |-> IF bill = None THEN "panic" ELSE "bill",
                        denomination |-> denomination,
                        user_address |-> user_address ]
        /\ held_bill' = UnwrapOr(bill, held_bill)
        /\ bill_op' = NoBillOp
        /\ payloads' = <<>>
        /\ UNCHANGED << miner_vars, registry_vars, levels, hash_calls, side_vars >>

\* a call of calculate_difficulty, kept with the call before it
CalculateDifficulty(denomination) ==
    /\ levels' = (IF Len(levels) < 2 THEN levels ELSE Tail(levels))
                    \o << [ denomination |-> denomination,
                            level |-> calculate_difficulty(denomination) ] >>
    /\ UNCHANGED << miner_vars, registry_vars, bill_vars, created, hash_calls, side_vars >>

(***************************************************************************)
(* The calls a caller makes on a DigitalBill it holds                      *)
(* (src/src/gtx/digital_bill.rs).                                          *)
(***************************************************************************)
\* lines 191-196
derive_public_key(private_key) == Sha256Hex(private_key)

\* a slip of finalize: the hash found by mining replaces the metadata hash
finalize_slip(bill, hash, nonce_text, time, private_key, now) ==
    [ bill |-> [bill EXCEPT !.metadata_hash = hash], bill_info |-> "" ]

\* lines 106-145: the bill after the call and the bill_info returned; no row
\* is written (line 143 is a comment)
finalize(bill, hash, nonce_text, time, private_key, now) ==
    LET transaction_data == JsonMap(<<
            <<"type", JsonStr("GTX_Genesis")>>,
            <<"from", JsonStr("genesis_network")>>,
            <<"to", JsonStr(bill.user_address)>>,
            <<"amount", Digits(bill.denomination)>>,
            <<"bill_serial", JsonStr(bill.bill_serial)>>,
            <<"mining_difficulty", Digits(bill.difficulty)>>,
            <<"mining_time", JsonF64(time)>>,
            <<"hash", JsonStr(hash)>>,
            <<"timestamp", JsonF64(now)>>,
            <<"status", JsonStr("mined")>>,
            <<"front_serial", JsonStr(bill.front_serial)>>,
            <<"issued_to", JsonStr(bill.user_address)>>,
            <<"denomination", Digits(bill.denomination)>>,
            <<"metadata_hash", JsonStr(bill.metadata_hash)>> >>)
        signed == IF private_key = None THEN bill
                  ELSE [bill EXCEPT
                          !.public_key = Some(derive_public_key(private_key[1])),
                          !.signature = Some(sign(bill, private_key[1]))]
        bill_info == JsonMap(<<
            <<"success", "true">>,
            <<"bill_serial", JsonStr(bill.bill_serial)>>,
            <<"denomination", Digits(bill.denomination)>>,
            <<"user_address", JsonStr(bill.user_address)>>,
            <<"mining_time", JsonF64(time)>>,
            <<"difficulty", Digits(bill.difficulty)>>,
            <<"hash", JsonStr(hash)>>,
            <<"nonce", JsonStr(nonce_text)>>,
            <<"timestamp", JsonF64(now)>>,
            <<"luna_value", Digits(bill.denomination)>>,
            <<"transaction_data", ToJsonString(transaction_data)>> >>)
    IN  [ bill |-> signed, bill_info |-> ToJsonString(bill_info) ]

\* the record of a call on held_bill: its name, the bool or the text it
\* returned, the number of summary fields written since the bill was
\* constructed, and whether verify() held before the last such write
BillOp(name, flag, text, writes, was_valid) ==
    [ name |-> name, flag |-> flag, text |-> text, writes |-> writes,
      was_valid |-> was_valid ]

\* the fields of the summary projection (to_dict) and the values written
SummaryFields ==
    { "bill_type", "front_serial", "back_serial", "metadata_hash", "timestamp",
      "issued_to", "denomination" }

SummaryValues(field) ==
    CASE field = "bill_type" -> {"GTX_Genesis", "GTX_other"}
      [] field = "front_serial" -> {"f"}
      [] field = "back_serial" -> {"", "b"}
      [] field = "metadata_hash" -> {"m"}
      [] field = "timestamp" -> {0, 3}
      [] field = "issued_to" -> {"u", "v"}
      [] field = "denomination" -> {1, 100}

PrivateKeys == {"k"}

\* DigitalBill::new called directly
NewBill(denomination, user_address, d, bill_data, random_part) ==
    /\ held_bill' = DigitalBillNew(denomination, user_address, d, bill_data, None,
                                   None, None, None, None, None, clock, random_part)
    /\ bill_op' = BillOp("new", FALSE, "", 0, FALSE)
    /\ payloads' = <<>>
    /\ UNCHANGED << miner_vars, registry_vars, genesis_vars, hash_calls, side_vars >>

\* the optional arguments handed to DigitalBill::new
OptionalTexts(text) == {None, Some(text)}

\* DigitalBill::new called directly with optional arguments
NewBillWith(user_address, bill_type, front_serial, back_serial, metadata_hash, public_key, signature) ==
    /\ held_bill' = DigitalBillNew(1, user_address, 0, None, bill_type, front_serial,
                                   back_serial, metadata_hash, public_key, signature,
                                   clock, "a")
    /\ new_args' = [ user_address |-> user_address, bill_type |-> bill_type,
                     front_serial |-> front_serial, back_serial |-> back_serial,
                     metadata_hash |-> metadata_hash, public_key |-> public_key,
                     signature |-> signature ]
    /\ bill_op' = BillOp("new", FALSE, "", 0, FALSE)
    /\ payloads' = <<>>
    /\ UNCHANGED << miner_vars, registry_vars, genesis_vars, hash_calls, cuda_search,
                    difficulty_call, registry_call, stats_vars, fleet_vars >>

\* finalize on the bill held
FinalizeBill(hash, nonce_text, time, private_key) ==
    /\ held_bill # NoBill
    /\ LET done == finalize(held_bill, hash, nonce_text, time, private_key, clock)
       IN  /\ held_bill' = done.bill
           /\ bill_op' = BillOp("finalize", TRUE, done.bill_info, bill_op.writes, FALSE)
    /\ UNCHANGED << miner_vars, registry_vars, genesis_vars, payloads, hash_calls, side_vars >>

\* bill.public_key = value
SetPublicKey(value) ==
    /\ held_bill # NoBill
    /\ held_bill' = [held_bill EXCEPT !.public_key = value]
    /\ bill_op' = BillOp("set_public_key", FALSE, "", bill_op.writes, FALSE)
    /\ UNCHANGED << miner_vars, registry_vars, genesis_vars, payloads, hash_calls, side_vars >>

\* bill.signature = Some(bill.sign(private_key))
SignBill(private_key) ==
    /\ held_bill # NoBill
    /\ held_bill' = [held_bill EXCEPT !.signature = Some(sign(held_bill, private_key))]
    /\ bill_op' = BillOp("set_signature", FALSE, "", bill_op.writes, FALSE)
    /\ UNCHANGED << miner_vars, registry_vars, genesis_vars, payloads, hash_calls, side_vars >>

\* bill.signature = None, or a text that is no signature
SetSignature(value) ==
    /\ held_bill # NoBill
    /\ held_bill' = [held_bill EXCEPT !.signature = value]
    /\ bill_op' = BillOp("set_signature", FALSE, "", bill_op.writes, FALSE)
    /\ UNCHANGED << miner_vars, registry_vars, genesis_vars, payloads, hash_calls, side_vars >>

\* a write of another value to one field of the summary projection
WriteSummary(field, value) ==
    /\ held_bill # NoBill
    /\ bill_op.writes < MaxWrites
    /\ held_bill[field] # value
    /\ held_bill' = [held_bill EXCEPT ![field] = value]
    /\ bill_op' = BillOp("write", FALSE, field, bill_op.writes + 1, verify(held_bill))
    /\ UNCHANGED << miner_vars, registry_vars, genesis_vars, payloads, hash_calls, side_vars >>

\* bill.get_mining_data(nonce), kept with the call before it
GetMiningData(n) ==
    /\ held_bill # NoBill
    /\ payloads' = (IF Len(payloads) < 2 THEN payloads ELSE Tail(payloads))
                      \o << [ nonce |-> n, now |-> clock, bill |-> held_bill,
                              payload |-> ToJsonString(get_mining_data(held_bill, n, clock)) ] >>
    /\ UNCHANGED << miner_vars, registry_vars, genesis_vars, held_bill, bill_op,
                    hash_calls, side_vars >>

\* time passes between two calls
Tick ==
    /\ clock < MaxClock
    /\ clock' = clock + 1
    /\ UNCHANGED << mining_active, active_lock, mining_stats, stats_lock, pc, op,
                    search_vars, calls, history_vars, returned, gtx_vars >>

\* bill.verify()
VerifySignature ==
    /\ held_bill # NoBill
    /\ bill_op' = BillOp("verify", verify(held_bill), "", bill_op.writes,
                         bill_op.name \in {"write", "verify"} /\ bill_op.was_valid)
    /\ UNCHANGED << miner_vars, registry_vars, genesis_vars, held_bill, payloads,
                    hash_calls, side_vars >>

\* the denominations asked for while issuing, one of them not valid
IssueDenominations == {1, 50, 100}

\* the custom data handed over while issuing
IssueCustomDatas == { None, Some(JsonObject(<< <<"memo", JsonStr("x")>> >>)) }

\* the serials a bill issued from these inputs can carry
IssuedSerials ==
    { generate_serial(denomination, now, random_part) :
        denomination \in IssueDenominations, now \in 0..MaxClock,
        random_part \in RandomParts }

(***************************************************************************)
(* Batch hashing (src/src/mining/cuda_manager.rs).                         *)
(***************************************************************************)
\* a slip of compute_hashes_parallel: every candidate carries the first nonce
compute_hashes_parallel_slip(base_data, order, nonces) ==
    [ i \in 1..Len(nonces) |->
        Sha256Hex(BlockString(MapPut(base_data, "nonce", Digits(nonces[1])), order)) ]

\* lines 75-83: for each nonce, a clone of base_data gets "nonce" and is
\* serialized in the order the clone iterates, which is the order of the
\* HashMap it was cloned from
compute_hashes_parallel(base_data, order, nonces) ==
    [ i \in 1..Len(nonces) |->
        LET mining_data == MapPut(base_data, "nonce", Digits(nonces[i]))
            data_string == BlockString(mining_data, order)
        IN  Sha256Hex(data_string) ]

\* the payloads a caller hands over (values are JSON text)
BaseDatas == { [data |-> JsonStr("abc")], [data |-> JsonStr("abc"), nonce |-> "9"] }

\* the nonce lists a caller hands over
NonceBatches == UNION { [1..n -> 0..MaxNonce] : n \in 0..2 }

\* a call of compute_hashes_parallel on a HashMap iterating in the given
\* order, kept with the call before it
ComputeHashesParallel(base_data, order, nonces) ==
    /\ hash_calls' = (IF Len(hash_calls) < 2 THEN hash_calls ELSE Tail(hash_calls))
                        \o << [ base_data |-> base_data, order |-> order,
                                nonces |-> nonces,
                                hashes |-> compute_hashes_parallel(base_data, order, nonces),
                                base_after |-> base_data ] >>
    /\ UNCHANGED << miner_vars, registry_vars, bill_vars, genesis_vars, side_vars >>

\* HashMap::remove
MapRemove(m, k) == [x \in DOMAIN m \ {k} |-> m[x]]

\* line 68: the cutoff, in seconds
CutoffSecs == 300

\* Duration::as_secs of a time in half-second ticks
as_secs(ticks) == ticks \div 2

\* the batch sizes a caller asks for
BatchSizes == {0, 1, 2}

\* how long one batch takes, in half-second ticks
BatchDurations == {200, 300, 301}

\* line 68: start_time.elapsed().as_secs() > 300
CutoffPassed(elapsed) == as_secs(elapsed) > CutoffSecs

\* cuda_mine_batch, lines 38-46: without the accelerator the call returns
\* None at once; with it the locals are set up and the loop is entered
CudaMineBatchCall(cuda_available, mining_data, order, d, batch_size) ==
    /\ cuda_search.pc \in {"idle", "done"}
    /\ cuda_search' =
          [ NoCudaSearch EXCEPT
              !.pc = IF cuda_available THEN "loop" ELSE "done",
              !.cuda_available = cuda_available,
              !.base_data = MapRemove(mining_data, "nonce"),
              !.order = order,
              !.difficulty = d,
              !.batch_size = batch_size,
              !.outcome = IF cuda_available THEN "none" ELSE "no_result" ]
    /\ UNCHANGED << miner_vars, registry_vars, bill_vars, genesis_vars, hash_calls,
                    difficulty_call, registry_call, stats_vars, new_args, fleet_vars >>

\* a slip of the loop: the scan of a batch keeps the last hit, not the first
CudaBatchLastHit(duration) ==
    /\ cuda_search.pc = "loop"
    /\ LET c == cuda_search
           nonces == [i \in 1..c.batch_size |-> c.nonce_start + i - 1]
           hashes == compute_hashes_parallel(c.base_data, c.order, nonces)
           hits == {i \in 1..c.batch_size : StartsWith(hashes[i], Target(c.difficulty))}
           now == c.elapsed + duration
           last == CHOOSE i \in hits : \A j \in hits : i >= j
           tried == [c EXCEPT !.elapsed = now, !.hashed = c.hashed + c.batch_size]
       IN  cuda_search' =
             IF hits # {}
             THEN [tried EXCEPT !.pc = "done", !.outcome = "success",
                                !.hash = hashes[last], !.nonce = nonces[last],
                                !.mining_time = now]
             ELSE IF c.batch_size * 10 = 0
             THEN [tried EXCEPT !.pc = "done", !.outcome = "panic"]
             ELSE IF CutoffPassed(now)
             THEN [tried EXCEPT !.pc = "done", !.outcome = "no_result",
                                !.nonce_start = c.nonce_start + c.batch_size]
             ELSE [tried EXCEPT !.nonce_start = c.nonce_start + c.batch_size]
    /\ UNCHANGED << miner_vars, registry_vars, bill_vars, genesis_vars, hash_calls,
                    difficulty_call, registry_call, stats_vars, new_args, fleet_vars >>

\* one turn of the loop, lines 47-70: the batch is hashed, the first hit is
\* returned; without a hit nonce_start moves on, the progress test divides
\* by batch_size * 10, and the cutoff is tested
CudaBatch(duration) ==
    /\ cuda_search.pc = "loop"
    /\ LET c == cuda_search
           nonces == [i \in 1..c.batch_size |-> c.nonce_start + i - 1]
           hashes == compute_hashes_parallel(c.base_data, c.order, nonces)
           hits == {i \in 1..c.batch_size : StartsWith(hashes[i], Target(c.difficulty))}
           now == c.elapsed + duration
           first == CHOOSE i \in hits : \A j \in hits : i <= j
           tried == [c EXCEPT !.elapsed = now, !.hashed = c.hashed + c.batch_size]
       IN  cuda_search' =
             IF hits # {}
             THEN [tried EXCEPT !.pc = "done", !.outcome = "success",
                                !.hash = hashes[first], !.nonce = nonces[first],
                                !.mining_time = now]
             ELSE IF c.batch_size * 10 = 0
             THEN [tried EXCEPT !.pc = "done", !.outcome = "panic"]
             ELSE IF CutoffPassed(now)
             THEN [tried EXCEPT !.pc = "done", !.outcome = "no_result",
                                !.nonce_start = c.nonce_start + c.batch_size]
             ELSE [tried EXCEPT !.nonce_start = c.nonce_start + c.batch_size]
    /\ UNCHANGED << miner_vars, registry_vars, bill_vars, genesis_vars, hash_calls,
                    difficulty_call, registry_call, stats_vars, new_args, fleet_vars >>

(***************************************************************************)
(* The calls made on a Difficulty (src/src/mining/difficulty.rs).          *)
(***************************************************************************)
\* the largest level whose target is built
MaxLevel == 4

\* the hashes handed to is_valid_hash
Hashes == {"", "0", "1", "00", "01", "10", "000", "001", "00ab", "0000", "00000f"}

\* the levels handed to adjust: the smallest ones, a carry between the
\* halves, and the largest
AdjustLevels == {U32(0), U32(1), U32(2), U32(4), U32(65535), U32(65536), U32Max}

\* block times, in half-second ticks
BlockTimes == {10, 20, 30}

\* Difficulty::new(level).target_string()
TargetString(level) ==
    /\ difficulty_call' = [NoDifficultyCall EXCEPT
                             !.name = "target_string", !.value = U32(level),
                             !.text = target_string(level), !.outcome = "value",
                             !.value_after = U32(level)]
    /\ UNCHANGED << miner_vars, registry_vars, bill_vars, genesis_vars, hash_calls,
                    cuda_search, registry_call, stats_vars, new_args, fleet_vars >>

\* Difficulty::new(level).is_valid_hash(hash)
IsValidHash(level, hash) ==
    /\ difficulty_call' = [NoDifficultyCall EXCEPT
                             !.name = "is_valid_hash", !.value = U32(level),
                             !.hash = hash, !.flag = is_valid_hash(level, hash),
                             !.outcome = "value", !.value_after = U32(level)]
    /\ UNCHANGED << miner_vars, registry_vars, bill_vars, genesis_vars, hash_calls,
                    cuda_search, registry_call, stats_vars, new_args, fleet_vars >>

\* Difficulty { value }.adjust(last_block_time, target_time); the receiver
\* is borrowed immutably
Adjust(value, last_block_time, target_time, overflow_checks) ==
    /\ LET result == adjust(value, last_block_time, target_time, overflow_checks)
       IN  difficulty_call' = [NoDifficultyCall EXCEPT
                                 !.name = "adjust", !.value = value,
                                 !.last_block_time = last_block_time,
                                 !.target_time = target_time,
                                 !.outcome = result.outcome,
                                 !.returned = result.value,
                                 !.value_after = value]
    /\ UNCHANGED << miner_vars, registry_vars, bill_vars, genesis_vars, hash_calls,
                    cuda_search, registry_call, stats_vars, new_args, fleet_vars >>

(***************************************************************************)
(* The registry's queries (src/src/gtx/bill_registry.rs) and the portfolio *)
(* built from them (src/src/gtx/genesis.rs).  f64 columns hold whole       *)
(* numbers here.                                                           *)
(***************************************************************************)
\* SELECT ... WHERE user_address = ?1 ORDER BY timestamp DESC; rows of equal
\* timestamp come in an order the query does not fix
RECURSIVE ByTimestampDesc(_)
ByTimestampDesc(rows) ==
    IF rows = {} THEN <<>>
    ELSE LET latest == CHOOSE r \in rows : \A q \in rows : q.timestamp <= r.timestamp
         IN  <<latest>> \o ByTimestampDesc(rows \ {latest})

\* serde_json::to_string of a metadata value (an object's keys are sorted)
MetadataText(metadata) ==
    IF metadata = None THEN "null"
    ELSE LET object == metadata[1]
             text(v) == IF v.t = "str" THEN JsonStr(v.s)
                        ELSE IF v.t = "u64" THEN Digits(v.n) ELSE JsonF64(v.n)
             RECURSIVE Pairs(_)
             Pairs(keys) ==
                 IF keys = {} THEN <<>>
                 ELSE LET k == CHOOSE k \in keys : TRUE
                      IN  MapInsert(Pairs(keys \ {k}), <<k, text(object[k])>>)
         IN  ToJsonString(Pairs(DOMAIN object))

\* the metadata values written to the registry
RegistryMetadatas ==
    { None, Some(EmptyObject), Some("foo" :> JStr("bar")),
      Some(("n" :> JU64(3)) @@ ("t" :> JF64(6))), Some(("n" :> JF64(6)) @@ ("t" :> JU64(3))) }

\* serde_json::from_str(&metadata_str).unwrap_or(JsonValue::Null): the value
\* whose text this is
MetadataFromText(metadata_str) ==
    IF \E m \in RegistryMetadatas : MetadataText(m) = metadata_str
    THEN CHOOSE m \in RegistryMetadatas : MetadataText(m) = metadata_str
    ELSE None

\* a row as the SELECT hands it back: the metadata column is text
ReadRow(row) == [row EXCEPT !.metadata = MetadataFromText(MetadataText(row.metadata))]

\* a slip of get_bill: the row is found by its hash
get_bill_slip(registry, bill_serial) ==
    IF \E s \in DOMAIN registry : registry[s].hash = bill_serial
    THEN Some(ReadRow(registry[CHOOSE s \in DOMAIN registry : registry[s].hash = bill_serial]))
    ELSE None

\* get_bill, lines 90-114
get_bill(registry, bill_serial) ==
    IF bill_serial \in DOMAIN registry THEN Some(ReadRow(registry[bill_serial])) ELSE None

\* get_user_bills, lines 116-146
get_user_bills(registry, user_address) ==
    ByTimestampDesc({ ReadRow(registry[s]) :
                        s \in {x \in DOMAIN registry : registry[x].user_address = user_address} })

\* a slip of get_denomination_breakdown: a denomination is counted once
get_denomination_breakdown_slip(bills) ==
    [ d \in {bills[i].denomination : i \in DOMAIN bills} |-> 1 ]

\* get_denomination_breakdown, genesis.rs lines 152-159
get_denomination_breakdown(bills) ==
    [ d \in {bills[i].denomination : i \in DOMAIN bills} |->
        Cardinality({i \in DOMAIN bills : bills[i].denomination = d}) ]

\* bills.iter().map(|b| b.luna_value).sum()
RECURSIVE SumLunaValue(_)
SumLunaValue(bills) ==
    IF bills = <<>> THEN 0 ELSE Head(bills).luna_value + SumLunaValue(Tail(bills))

\* get_user_portfolio, genesis.rs lines 126-136
get_user_portfolio(registry, user_address) ==
    LET bills == get_user_bills(registry, user_address)
    IN  [ NoRegistryCall EXCEPT
            !.name = "get_user_portfolio",
            !.arg = user_address,
            !.total_bills = Len(bills),
            !.total_luna_value = SumLunaValue(bills),
            !.rows = bills,
            !.breakdown = get_denomination_breakdown(bills) ]

\* the serials of the rows written with their owner and value
OwnedSerials == {"b1", "b2", "b3"}

\* what a row written holds besides its serial: the value equals the
\* denomination, as finalize writes it, or differs from it
RowShapes ==
    { [ denomination |-> 10, luna_value |-> 10, user_address |-> "u", hash |-> "h1",
        timestamp |-> 3, status |-> "active", metadata |-> Some("foo" :> JStr("bar")) ],
      [ denomination |-> 100, luna_value |-> 100, user_address |-> "u", hash |-> "h2",
        timestamp |-> 4, status |-> "active", metadata |-> None ],
      [ denomination |-> 100, luna_value |-> 1, user_address |-> "u", hash |-> "h3",
        timestamp |-> 3, status |-> "spent",
        metadata |-> Some(("n" :> JU64(3)) @@ ("t" :> JF64(6))) ],
      [ denomination |-> 10, luna_value |-> 10, user_address |-> "v", hash |-> "h1",
        timestamp |-> 5, status |-> "", metadata |-> Some(EmptyObject) ] }

\* the BillInfo rows handed to register_bill with an owner
OwnedBillInfos ==
    { [ bill_serial |-> serial, denomination |-> shape.denomination,
        user_address |-> shape.user_address, hash |-> shape.hash, mining_time |-> 1,
        difficulty |-> 2, luna_value |-> shape.luna_value,
        timestamp |-> shape.timestamp, verification_url |-> "", image_url |-> "",
        metadata |-> shape.metadata, status |-> shape.status ] :
        serial \in OwnedSerials, shape \in RowShapes }

\* the serials and the addresses asked about
LookupSerials == OwnedSerials \cup {"b9"}

LookupAddresses == {"u", "v", "w"}

\* a call of get_user_portfolio
GetUserPortfolio(user_address) ==
    /\ registry_call' = get_user_portfolio(bill_registry, user_address)
    /\ UNCHANGED << miner_vars, registry_vars, bill_vars, genesis_vars, hash_calls,
                    cuda_search, difficulty_call, stats_vars, new_args, fleet_vars >>

\* a call of get_bill
GetBill(bill_serial) ==
    /\ registry_call' = [ NoRegistryCall EXCEPT
                            !.name = "get_bill", !.arg = bill_serial,
                            !.found = get_bill(bill_registry, bill_serial) ]
    /\ UNCHANGED << miner_vars, registry_vars, bill_vars, genesis_vars, hash_calls,
                    cuda_search, difficulty_call, stats_vars, new_args, fleet_vars >>

\* a call of get_user_bills
GetUserBills(user_address) ==
    /\ registry_call' = [ NoRegistryCall EXCEPT
                            !.name = "get_user_bills", !.arg = user_address,
                            !.rows = get_user_bills(bill_registry, user_address) ]
    /\ UNCHANGED << miner_vars, registry_vars, bill_vars, genesis_vars, hash_calls,
                    cuda_search, difficulty_call, stats_vars, new_args, fleet_vars >>

(***************************************************************************)
(* The stats update of a success, one addition at a time                   *)
(* (src/src/mining/miner.rs, lines 52-61 and 84-90).                       *)
(***************************************************************************)
\* line 53 / 85: bills_mined or blocks_mined += 1, under the stats mutex
StatsCount(t) ==
    /\ pc[t] = "update"
    /\ update_step[t] = 0
    /\ mining_stats' = IF op[t] = "mine_bill"
                       THEN [mining_stats EXCEPT !.bills_mined = @ + 1]
                       ELSE [mining_stats EXCEPT !.blocks_mined = @ + 1]
    /\ update_step' = [update_step EXCEPT ![t] = 1]
    /\ UNCHANGED << mining_active, active_lock, stats_lock, clock, pc, op,
                    search_vars, calls, history_vars, returned, registry_vars,
                    bill_vars, genesis_vars, hash_calls, cuda_search, difficulty_call,
                    registry_call, completed_stats, new_args, fleet_vars >>

\* line 54 / 86: total_mining_time += mining_time as u64
StatsTime(t) ==
    /\ pc[t] = "update"
    /\ update_step[t] = 1
    /\ mining_stats' = [mining_stats EXCEPT
                          !.total_mining_time = @ + F64AsU64(mining_time[t])]
    /\ update_step' = [update_step EXCEPT ![t] = 2]
    /\ UNCHANGED << mining_active, active_lock, stats_lock, clock, pc, op,
                    search_vars, calls, history_vars, returned, registry_vars,
                    bill_vars, genesis_vars, hash_calls, cuda_search, difficulty_call,
                    registry_call, completed_stats, new_args, fleet_vars >>

\* line 55 / 87: total_hash_attempts += nonce
StatsAttempts(t) ==
    /\ pc[t] = "update"
    /\ update_step[t] = 2
    /\ mining_stats' = [mining_stats EXCEPT !.total_hash_attempts = @ + nonce[t]]
    /\ update_step' = [update_step EXCEPT ![t] = 3]
    /\ UNCHANGED << mining_active, active_lock, stats_lock, clock, pc, op,
                    search_vars, calls, history_vars, returned, registry_vars,
                    bill_vars, genesis_vars, hash_calls, cuda_search, difficulty_call,
                    registry_call, completed_stats, new_args, fleet_vars >>

\* lines 56-61 / 88-90: the result is built and returned, both guards are
\* dropped
ReturnResult(t) ==
    /\ pc[t] = "update"
    /\ update_step[t] = 3
    /\ LET mined == MapPut(MapPut(block_data[t], "hash", JsonStr(found_hash[t])),
                           "mining_time", JsonF64(mining_time[t]))
       IN  returned' =
             IF op[t] = "mine_bill"
             THEN Returned("mine_bill",
                           Some(BillResult(found_hash[t], nonce[t], mining_time[t])),
                           difficulty[t], Len(attempts[t]), stop_called[t],
                           stats_at_entry[t], block_data[t])
             ELSE Returned("mine_block", Some(mined), difficulty[t], Len(attempts[t]),
                           stop_called[t], stats_at_entry[t], mined)
    /\ completed_stats' = IF op[t] = "mine_bill"
                          THEN BillStatsUpdate(completed_stats, mining_time[t], nonce[t])
                          ELSE BlockStatsUpdate(completed_stats, mining_time[t], nonce[t])
    /\ update_step' = [update_step EXCEPT ![t] = 0]
    /\ stats_lock' = NoThread
    /\ active_lock' = NoThread
    /\ Return(t)
    /\ UNCHANGED << mining_active, mining_stats, clock, calls, registry_vars,
                    bill_vars, genesis_vars, hash_calls, cuda_search, difficulty_call,
                    registry_call, new_args, fleet_vars >>

Next ==
    \/ \E t \in Threads, denomination \in Denominations, user_address \in Addresses,
          bill_data \in BillDatas, d \in Difficulties, random_part \in RandomParts :
            MineBillCall(t, denomination, user_address, bill_data, d, random_part)
    \/ \E t \in Threads, block \in BlockInputs, d \in Difficulties :
          \E order \in Orders(DOMAIN block \cup {"nonce"}) :
            MineBlockCall(t, block, d, order)
    \/ \E t \in Threads : AcquireActive(t)
    \/ \E t \in Threads : LoopCheck(t)
    \/ \E t \in Threads : BillHashStep(t)
    \/ \E t \in Threads : BlockHashStep(t)
    \/ \E t \in Threads : AcquireStats(t)
    \/ \E t \in Threads : BillSuccess(t)
    \/ \E t \in Threads : BlockSuccess(t)
    \/ \E t \in Threads : StopCall(t)
    \/ \E t \in Threads : StopMining(t)
    \/ \E t \in Threads : GetMiningStats(t)

Spec == Init /\ [][Next]_vars

\* the positions of a thread in a call
PcValues == {"idle", "lock_active", "loop", "hash", "lock_stats", "update", "stop_lock"}

\* the search of thread t is at the last nonce the model follows it to
AtLastNonce(t) == pc[t] = "hash" /\ nonce[t] = MaxNonce

\* thread t is inside a call and its next step does not wait: lock() returns
\* when the mutex is free, everything else when the thread is scheduled
CanStep(t) ==
    \/ pc[t] \in {"lock_active", "stop_lock"} /\ active_lock = NoThread
    \/ pc[t] = "lock_stats" /\ stats_lock = NoThread
    \/ pc[t] \in {"loop", "update"}
    \/ pc[t] = "hash" /\ ~AtLastNonce(t)

\* thread t takes the next step of its call
Advance(t) ==
    /\ CanStep(t)
    /\ pc' \in [Threads -> PcValues]
    /\ pc'[t] # pc[t]

\* the scheduler lets every thread that can take a step take it in the end
FairSpec == Spec /\ \A t \in Threads : WF_pc(Advance(t))

\* one caller, thread 1, makes its calls one after the other
SeqNext ==
    \/ \E denomination \in SeqDenominations, user_address \in SeqAddresses,
          bill_data \in SeqBillDatas, d \in Difficulties, random_part \in RandomParts :
            MineBillCall(1, denomination, user_address, bill_data, d, random_part)
    \/ \E block \in BlockInputs, d \in Difficulties :
          \E order \in Orders(DOMAIN block \cup {"nonce"}) :
            MineBlockCall(1, block, d, order)
    \/ AcquireActive(1)
    \/ LoopCheck(1)
    \/ BillHashStep(1)
    \/ BlockHashStep(1)
    \/ AcquireStats(1)
    \/ BillSuccess(1)
    \/ BlockSuccess(1)
    \/ StopCall(1)
    \/ StopMining(1)
    \/ GetMiningStats(1)

SeqSpec == Init /\ [][SeqNext]_vars

\* one caller, thread 1, calls stop_mining and the searches one after the
\* other, so that every stop_mining is made while no search runs
StopNext ==
    \/ \E denomination \in Denominations, user_address \in Addresses,
          bill_data \in BillDatas, d \in Difficulties, random_part \in RandomParts :
            MineBillCall(1, denomination, user_address, bill_data, d, random_part)
    \/ \E block \in BlockInputs, d \in Difficulties :
          \E order \in Orders(DOMAIN block \cup {"nonce"}) :
            MineBlockCall(1, block, d, order)
    \/ AcquireActive(1)
    \/ LoopCheck(1)
    \/ BillHashStep(1)
    \/ BlockHashStep(1)
    \/ AcquireStats(1)
    \/ BillSuccess(1)
    \/ BlockSuccess(1)
    \/ StopCall(1)
    \/ StopMining(1)

StopSpec == Init /\ [][StopNext]_vars

\* rows are written to the registry and bills are verified
VerifyNext ==
    \/ \E bill_info \in BillInfos : RegisterBill(bill_info)
    \/ \E bill_serial \in QueriedSerials : VerifyBill(bill_serial)

VerifySpec == Init /\ [][VerifyNext]_vars

\* bills are created by the orchestrator
GenesisNext ==
    \E denomination \in GenesisDenominations, user_address \in SeqAddresses,
       custom_data \in CustomDatas, random_part \in RandomParts :
         CreateGenesisBill(denomination, user_address, custom_data, random_part)

GenesisSpec == Init /\ [][GenesisNext]_vars

\* difficulty levels are asked for
LevelNext == \E denomination \in LevelDenominations : CalculateDifficulty(denomination)

LevelSpec == Init /\ [][LevelNext]_vars

\* a caller constructs a bill, writes its fields, finalizes and verifies it
BillNext ==
    \/ \E denomination \in Denominations, user_address \in Addresses,
          bill_data \in BillDatas, random_part \in RandomParts :
            NewBill(denomination, user_address, 0, bill_data, random_part)
    \/ \E private_key \in {None} \cup {Some(key) : key \in PrivateKeys} :
          FinalizeBill("0f", "7", 3, private_key)
    \/ \E value \in {None} \cup {Some(key) : key \in PrivateKeys} : SetPublicKey(value)
    \/ \E value \in {None, Some("x")} : SetSignature(value)
    \/ \E private_key \in PrivateKeys : SignBill(private_key)
    \/ \E field \in SummaryFields : \E value \in SummaryValues(field) :
          WriteSummary(field, value)
    \/ VerifySignature

BillSpec == Init /\ [][BillNext]_vars

\* a caller constructs a bill and asks for its mining payload now and then
PayloadNext ==
    \/ \E denomination \in Denominations, user_address \in Addresses,
          bill_data \in BillDatas, d \in Difficulties, random_part \in RandomParts :
            NewBill(denomination, user_address, d, bill_data, random_part)
    \/ \E n \in 0..MaxNonce : GetMiningData(n)
    \/ Tick

PayloadSpec == Init /\ [][PayloadNext]_vars

\* a caller hashes batches of candidates
BatchNext ==
    \E base_data \in BaseDatas, nonces \in NonceBatches :
        \E order \in Orders(DOMAIN base_data \cup {"nonce"}) :
            ComputeHashesParallel(base_data, order, nonces)

BatchSpec == Init /\ [][BatchNext]_vars

\* issuance: the orchestrator creates a bill, the caller searches over its
\* mining payloads and finalizes it with the proof, and the serial is
\* looked up
IssueNext ==
    \/ \E denomination \in IssueDenominations, custom_data \in IssueCustomDatas,
          random_part \in RandomParts :
            CreateGenesisBill(denomination, "u", custom_data, random_part)
    \/ \E n \in 0..MaxNonce : GetMiningData(n)
    \/ \E private_key \in {None} \cup {Some(k) : k \in PrivateKeys} :
            FinalizeBill("0f", "7", 3, private_key)
    \/ \E bill_serial \in IssuedSerials : VerifyBill(bill_serial)

IssueSpec == Init /\ [][IssueNext]_vars

\* a caller runs accelerated batch searches one after the other
CudaNext ==
    \/ \E cuda_available \in BOOLEAN, mining_data \in BaseDatas, d \in Difficulties,
          batch_size \in BatchSizes :
          \E order \in Orders(DOMAIN mining_data \cup {"nonce"}) :
            CudaMineBatchCall(cuda_available, mining_data, order, d, batch_size)
    \/ \E duration \in BatchDurations : CudaBatch(duration)

CudaSpec == Init /\ [][CudaNext]_vars

\* a caller works with Difficulty values
DifficultyNext ==
    \/ \E level \in 0..MaxLevel : TargetString(level)
    \/ \E level \in 0..MaxLevel, hash \in Hashes : IsValidHash(level, hash)
    \/ \E value \in AdjustLevels, last_block_time \in BlockTimes,
          target_time \in BlockTimes, overflow_checks \in BOOLEAN :
            Adjust(value, last_block_time, target_time, overflow_checks)

DifficultySpec == Init /\ [][DifficultyNext]_vars

\* rows are written to the registry and it is queried
RegistryNext ==
    \/ \E bill_info \in OwnedBillInfos : RegisterBill(bill_info)
    \/ \E user_address \in LookupAddresses : GetUserPortfolio(user_address)
    \/ \E bill_serial \in LookupSerials : GetBill(bill_serial)
    \/ \E user_address \in LookupAddresses : GetUserBills(user_address)

RegistrySpec == Init /\ [][RegistryNext]_vars

\* two threads call the engine, and a success adds to the stats one
\* counter at a time
StatsNext ==
    \/ \E t \in Threads, denomination \in Denominations, user_address \in Addresses,
          bill_data \in BillDatas, d \in Difficulties, random_part \in RandomParts :
            MineBillCall(t, denomination, user_address, bill_data, d, random_part)
    \/ \E t \in Threads, block \in BlockInputs, d \in Difficulties :
          \E order \in Orders(DOMAIN block \cup {"nonce"}) :
            MineBlockCall(t, block, d, order)
    \/ \E t \in Threads : AcquireActive(t)
    \/ \E t \in Threads : LoopCheck(t)
    \/ \E t \in Threads : BillHashStep(t)
    \/ \E t \in Threads : BlockHashStep(t)
    \/ \E t \in Threads : AcquireStats(t)
    \/ \E t \in Threads : StatsCount(t)
    \/ \E t \in Threads : StatsTime(t)
    \/ \E t \in Threads : StatsAttempts(t)
    \/ \E t \in Threads : ReturnResult(t)
    \/ \E t \in Threads : GetMiningStats(t)

StatsSpec == Init /\ [][StatsNext]_vars

(***************************************************************************)
(* Several GenesisMiner instances, each with one thread calling mine_bill  *)
(* or mine_block and another calling stop_mining.  An instance reaches its *)
(* flag and its stats through the cells its own Arcs point to.             *)
(***************************************************************************)
FleetOps == {"mine_bill", "mine_block"}

\* the calls made on the instances so far
FleetCalls == fleet[1].calls + fleet[2].calls

\* the rest of the model stands still
FleetFrame ==
    UNCHANGED << miner_vars, registry_vars, bill_vars, genesis_vars, hash_calls,
                 cuda_search, difficulty_call, registry_call, stats_vars, new_args,
                 engines >>

\* mine_bill / mine_block is called on instance e, lines 33-43 / 72-75:
\* nonce = 0, then the thread waits for the mining_active mutex
FleetMineCall(e, name) ==
    /\ fleet[e].pc = "idle"
    /\ FleetCalls <= MaxCalls
    /\ fleet' = [fleet EXCEPT ![e].pc = "lock_active", ![e].op = name,
                              ![e].nonce = 0, ![e].calls = @ + 1]
    /\ UNCHANGED << active_cells, stats_cells >>
    /\ FleetFrame

\* lines 44-45 / 76-77: self.mining_active.lock() returns once the mutex of
\* the instance's cell is free; `*mining_active = true`
FleetAcquireActive(e) ==
    /\ fleet[e].pc = "lock_active"
    /\ active_cells[engines[e].mining_active].guard = NoEngine
    /\ active_cells' = [active_cells EXCEPT ![engines[e].mining_active] =
                            [value |-> TRUE, guard |-> e]]
    /\ fleet' = [fleet EXCEPT ![e].pc = "loop"]
    /\ UNCHANGED stats_cells
    /\ FleetFrame

\* lines 46-51 and 63 / 78-83 and 92: `while *mining_active` and one
\* candidate; `hit` is whether its hash starts with the target, which the
\* arguments of the call decide.  A false flag ends the call with None and
\* drops the guard.
FleetCandidate(e, hit) ==
    /\ fleet[e].pc = "loop"
    /\ IF ~ active_cells[engines[e].mining_active].value
       THEN /\ active_cells' = [active_cells EXCEPT
                                   ![engines[e].mining_active].guard = NoEngine]
            /\ fleet' = [fleet EXCEPT ![e].pc = "idle", ![e].op = "none",
                                      ![e].nonce = 0]
       ELSE /\ UNCHANGED active_cells
            /\ IF hit
               THEN fleet' = [fleet EXCEPT ![e].pc = "lock_stats"]
               ELSE /\ fleet[e].nonce < MaxNonce
                    /\ fleet' = [fleet EXCEPT ![e].nonce = NextNonce(@)]
    /\ UNCHANGED stats_cells
    /\ FleetFrame

\* line 52 / 84: self.mining_stats.lock() on the instance's stats cell
FleetAcquireStats(e) ==
    /\ fleet[e].pc = "lock_stats"
    /\ stats_cells[engines[e].mining_stats].guard = NoEngine
    /\ stats_cells' = [stats_cells EXCEPT ![engines[e].mining_stats].guard = e]
    /\ fleet' = [fleet EXCEPT ![e].pc = "update"]
    /\ UNCHANGED active_cells
    /\ FleetFrame

\* lines 53-61 / 85-90: the stats update and the return that drops both
\* guards; mining_time is the time the search took
FleetSuccess(e, time) ==
    /\ fleet[e].pc = "update"
    /\ stats_cells' = [stats_cells EXCEPT ![engines[e].mining_stats] =
           [value |-> IF fleet[e].op = "mine_bill"
                      THEN BillStatsUpdate(@.value, time, fleet[e].nonce)
                      ELSE BlockStatsUpdate(@.value, time, fleet[e].nonce),
            guard |-> NoEngine]]
    /\ active_cells' = [active_cells EXCEPT
                            ![engines[e].mining_active].guard = NoEngine]
    /\ fleet' = [fleet EXCEPT ![e].pc = "idle", ![e].op = "none", ![e].nonce = 0]
    /\ FleetFrame

\* stop_mining is called on instance e by its second thread, which waits
\* for the mining_active mutex (line 102)
FleetStopCall(e) ==
    /\ fleet[e].stop_pc = "idle"
    /\ FleetCalls <= MaxCalls
    /\ fleet' = [fleet EXCEPT ![e].stop_pc = "stop_lock", ![e].calls = @ + 1]
    /\ UNCHANGED << active_cells, stats_cells >>
    /\ FleetFrame

\* stop_mining, lines 102-105: the mutex is taken, the flag cleared, the
\* guard dropped at the return
FleetStopMining(e) ==
    /\ fleet[e].stop_pc = "stop_lock"
    /\ active_cells[engines[e].mining_active].guard = NoEngine
    /\ active_cells' = [active_cells EXCEPT
                            ![engines[e].mining_active].value = FALSE]
    /\ fleet' = [fleet EXCEPT ![e].stop_pc = "idle"]
    /\ UNCHANGED stats_cells
    /\ FleetFrame

FleetNext ==
    \/ \E e \in EngineIds, name \in FleetOps : FleetMineCall(e, name)
    \/ \E e \in EngineIds : FleetAcquireActive(e)
    \/ \E e \in EngineIds, hit \in BOOLEAN : FleetCandidate(e, hit)
    \/ \E e \in EngineIds : FleetAcquireStats(e)
    \/ \E e \in EngineIds, time \in HashDurations : FleetSuccess(e, time)
    \/ \E e \in EngineIds : FleetStopCall(e)
    \/ \E e \in EngineIds : FleetStopMining(e)

FleetSpec == Init /\ [][FleetNext]_vars

\* bills are constructed directly, by create_genesis_bill and by mine_bill,
\* and the bill held is finalized
ConstructNext ==
    \/ \E bill_type \in OptionalTexts("GTX_other"), front_serial \in OptionalTexts("f1"),
          back_serial \in OptionalTexts("b") :
            NewBillWith("v", bill_type, front_serial, back_serial, None, None, None)
    \/ \E denomination \in IssueDenominations, random_part \in RandomParts :
            CreateGenesisBill(denomination, "u", None, random_part)
    \/ \E t \in Threads, denomination \in Denominations, user_address \in Addresses,
          bill_data \in BillDatas, d \in Difficulties, random_part \in RandomParts :
            MineBillCall(t, denomination, user_address, bill_data, d, random_part)
    \/ \E private_key \in {None} \cup {Some(k) : k \in PrivateKeys} :
            FinalizeBill("0f", "7", 3, private_key)

ConstructSpec == Init /\ [][ConstructNext]_vars

(***************************************************************************)
(* Properties of the mining engine.                                        *)
(***************************************************************************)
Searches == {"mine_bill", "mine_block"}

\* the step in which the search of thread t returns a result
SuccessStep(t) == pc[t] = "update" /\ pc'[t] = "idle"

\* C1: a search on which stop_mining() was called while its loop was
\* running, and which passed a further loop check and tried a further
\* candidate after that call, exits without a result.
C1_StoppedSearchExitsWithoutResult ==
    (/\ returned.op \in Searches
     /\ returned.stop_called > 0
     /\ returned.tried > returned.stop_called)
        => returned.value = None

\* C2: no search holds the lock of the active flag while it hashes a
\* candidate nonce: the lock is free between two loop checks.
C2_ActiveLockNotHeldAcrossIteration ==
    \A t \in Threads : pc[t] = "hash" => active_lock # t

\* C3: the active flag is false for a new engine and false again whenever a
\* mine_bill / mine_block call has returned and no search is running.
C3_IdleAfterSearchEnded ==
    /\ (calls = 0 => mining_active = FALSE)
    /\ (returned.op \in Searches /\ \A t \in Threads : ~InSearch(t))
          => mining_active = FALSE

C5_StatsChangeOnlyOnSuccess ==
    [][ /\ \A k \in DOMAIN mining_stats : mining_stats'[k] >= mining_stats[k]
        /\ mining_stats' # mining_stats => \E t \in Threads : SuccessStep(t)
        /\ \A t \in Threads :
             /\ (SuccessStep(t) /\ op[t] = "mine_bill") =>
                   /\ mining_stats'.bills_mined = mining_stats.bills_mined + 1
                   /\ mining_stats'.blocks_mined = mining_stats.blocks_mined
             /\ (SuccessStep(t) /\ op[t] = "mine_block") =>
                   /\ mining_stats'.blocks_mined = mining_stats.blocks_mined + 1
                   /\ mining_stats'.bills_mined = mining_stats.bills_mined
        /\ (returned' # returned /\ returned'.op \in {"stop_mining", "get_mining_stats"})
              => mining_stats' = mining_stats
      ]_vars

C5_Witness ==
    /\ mining_stats.bills_mined >= 1
    /\ mining_stats.blocks_mined >= 1
    /\ mining_stats.total_hash_attempts >= 1

\* C6: when mine_bill returns a result, the candidates it tried are the
\* nonces 0, 1, 2, ... in this order, each hashed as the SHA-256 of the
\* serialized mining payload carrying that nonce; the returned nonce is the
\* last of them, the returned hash is its hash and starts with `difficulty`
\* '0' characters, and the hash of every smaller nonce failed the target.
C6_BillResultIsFirstHit ==
    [][ \A t \in Threads : (SuccessStep(t) /\ op[t] = "mine_bill") =>
          /\ returned'.op = "mine_bill"
          /\ returned'.value # None
          /\ LET r == returned'.value[1]
                 a == attempts[t]
             IN  /\ Len(a) = r.nonce + 1
                 /\ \A i \in 1..Len(a) :
                      /\ a[i].nonce = i - 1
                      /\ a[i].hash = Sha256Hex(ToJsonString(
                             get_mining_data(digital_bill[t], i - 1, a[i].now)))
                 /\ r.hash = a[Len(a)].hash
                 /\ StartsWith(r.hash, Repeat("0", difficulty[t]))
                 /\ \A i \in 1..(Len(a) - 1) :
                      ~StartsWith(a[i].hash, Repeat("0", difficulty[t]))
      ]_vars

C6_Witness ==
    /\ returned.op = "mine_bill"
    /\ returned.value # None
    /\ returned.value[1].nonce > 0
    /\ returned.difficulty > 0

Chained ==
    /\ verification.result # None
    /\ verification.bill_serial \in DOMAIN bill_registry
    /\ bill_registry[verification.bill_serial].metadata # None

VerifiedMetadata == bill_registry[verification.bill_serial].metadata[1]

Min(S) == CHOOSE i \in S : \A j \in S : i <= j

\* the predicate of method i as the source tests it
MethodHolds(i, f, bill) ==
    CASE i = 1 -> Method1(f)
      [] i = 2 -> Method2(f)
      [] i = 3 -> Method3(f, bill)
      [] i = 4 -> Method4(bill)
      [] i = 5 -> Method5(f, bill)
      [] i = 6 -> Method6(f)
      [] i = 7 -> Method7(f)
      [] i = 8 -> Method8(f)

\* the predicate of method i as the numbered list states it: methods 1, 2
\* and 6 are bare equalities
StatedHolds(i, f, bill) ==
    CASE i = 1 -> f.signature = f.metadata_hash
      [] i = 2 -> f.signature = Sha256Hex(f.public_key \o f.metadata_hash)
      [] i = 6 -> f.signature = simple_hash(f)
      [] OTHER -> MethodHolds(i, f, bill)

C10_UnsignedRecordRejected ==
    (Chained /\ "signature" \notin DOMAIN VerifiedMetadata)
        => verification.result[1].valid = FALSE

\* C11: once methods 1-4 have failed, verify_bill reports method 5
\* ("digital_bill_metadata_hash") exactly when the stored signature equals
\* the metadata hash computed anew from the record's fields.
C11_Method5RecomputesFresh ==
    Chained =>
        LET f == BillFields(VerifiedMetadata)
            bill == RebuiltBill(f, clock)
            r == verification.result[1]
        IN  (\A i \in 1..4 : ~MethodHolds(i, f, bill)) =>
                ((r.verification_method = Some("digital_bill_metadata_hash"))
                    <=> (f.signature = FreshMetadataHash(f)))

\* C12: verify_bill of an empty serial or of a serial without a row returns
\* valid = false with an error and no verification_method; every result
\* carries a verification_method iff it is valid and an error iff it is not.
C12_TerminalNegativeResult ==
    verification.result # None =>
        LET r == verification.result[1]
        IN  /\ verification.bill_serial = "" =>
                r = [valid |-> FALSE, bill |-> None, verification_method |-> None,
                     error |-> Some("Invalid bill serial")]
            /\ (verification.bill_serial # ""
                  /\ verification.bill_serial \notin DOMAIN bill_registry) =>
                r = [valid |-> FALSE, bill |-> None, verification_method |-> None,
                     error |-> Some("Bill not found in registry")]
            /\ (r.verification_method # None) <=> (r.valid = TRUE)
            /\ (r.error # None) <=> (r.valid = FALSE)

C12_Witness ==
    /\ verification.result # None
    /\ verification.bill_serial = "GTX7_0_b"
    /\ bill_registry # NoBills
    /\ verification.result[1].valid = FALSE

(***************************************************************************)
(* Properties of bill creation and of the difficulty table.                *)
(***************************************************************************)
\* C13: create_genesis_bill panics, producing no bill, mining nothing and
\* writing no row, exactly for the denominations outside {1, 10, ...,
\* 100000000}; for the others it returns a bill with that denomination, the
\* given user_address and difficulty = calculate_difficulty(denomination).
C13_CreationChecksDenomination ==
    created.outcome # "none" =>
        /\ (created.outcome = "panic") <=>
               (created.denomination \notin
                   {1, 10, 100, 1000, 10000, 100000, 1000000, 10000000, 100000000})
        /\ created.outcome = "bill" =>
               /\ held_bill.denomination = created.denomination
               /\ held_bill.user_address = created.user_address
               /\ held_bill.issued_to = created.user_address
               /\ held_bill.difficulty = calculate_difficulty(created.denomination)
        /\ (created.outcome = "panic" /\ held_bill # NoBill) =>
               held_bill.denomination # created.denomination
        /\ mining_stats = NewStats
        /\ bill_registry = NoBills

C13_Witness ==
    /\ created.outcome = "panic"
    /\ created.denomination = 50
    /\ held_bill.denomination = 100000000
    /\ held_bill.difficulty = 10

\* the level the step table gives: 2 plus the number of band limits below
\* the denomination
TableLevel(denomination) ==
    2 + Cardinality({limit \in {1, 10, 100, 1000, 10000, 100000, 1000000, 10000000} :
                        denomination > limit})

\* the calls of calculate_difficulty agree with the step table, are in 2..10,
\* equal for equal denominations and ordered as the denominations are; of
\* two calls on d and d + 1 the levels differ exactly when d is in `limits`
LevelsFollowTable(limits) ==
    /\ \A i \in DOMAIN levels :
         /\ levels[i].level = TableLevel(levels[i].denomination)
         /\ levels[i].level \in 2..10
    /\ \A i, j \in DOMAIN levels :
         /\ levels[i].denomination = levels[j].denomination
               => levels[i].level = levels[j].level
         /\ levels[i].denomination <= levels[j].denomination
               => levels[i].level <= levels[j].level
         /\ levels[j].denomination = levels[i].denomination + 1
               => ((levels[j].level # levels[i].level)
                      <=> (levels[i].denomination \in limits))

\* C14: calculate_difficulty is the step table <=1 -> 2, ..., <=10000000 -> 9,
\* otherwise 10: deterministic, non-decreasing, always in 2..10, the level
\* changing exactly at the eight band limits 1, 10, ..., 10000000.
C14_DifficultyStepTable ==
    LevelsFollowTable({1, 10, 100, 1000, 10000, 100000, 1000000, 10000000})

\* C14 as stated: the level changes at nine band boundaries, the nine valid
\* denominations
C14_AsStated ==
    LevelsFollowTable({1, 10, 100, 1000, 10000, 100000, 1000000, 10000000, 100000000})

C14_Witness ==
    /\ Len(levels) = 2
    /\ levels[1] = [denomination |-> 10000000, level |-> 9]
    /\ levels[2] = [denomination |-> 10000001, level |-> 10]

(***************************************************************************)
(* Properties of the bill entity.                                          *)
(***************************************************************************)
\* C15: finalize, with or without a private key, and every write of
\* public_key or signature leave the bill's metadata_hash as it was.
C15_MetadataHashKept ==
    [][ (held_bill' # held_bill
           /\ bill_op'.name \in {"finalize", "set_public_key", "set_signature"})
          => held_bill'.metadata_hash = held_bill.metadata_hash ]_vars

C15_Witness ==
    /\ bill_op.name = "finalize"
    /\ held_bill.public_key # None
    /\ held_bill.signature # None
    /\ held_bill.metadata_hash =
          generate_metadata_hash(held_bill.denomination, held_bill.user_address,
                                 held_bill.difficulty, held_bill.created_time,
                                 held_bill.bill_serial)

\* SHA-256 over the serialized summary projection of the bill: type,
\* front_serial, back_serial, metadata_hash, timestamp, issued_to, denomination
SummaryHash(b) ==
    Sha256Hex(ToJsonString(JsonMap(<<
        <<"type", JsonStr(b.bill_type)>>,
        <<"front_serial", JsonStr(b.front_serial)>>,
        <<"back_serial", JsonStr(b.back_serial)>>,
        <<"metadata_hash", JsonStr(b.metadata_hash)>>,
        <<"timestamp", JsonF64(b.timestamp)>>,
        <<"issued_to", JsonStr(b.issued_to)>>,
        <<"denomination", Digits(b.denomination)>> >>)))

\* C18: verify() returns true exactly when public_key and signature are both
\* present and signature = SHA-256(public_key ++ hash of the current summary
\* fields); after a write of another value to a summary field of a bill on
\* which verify() held, public_key and signature kept, verify() is false.
C18_VerifyRecomputesSignature ==
    bill_op.name = "verify" =>
        /\ bill_op.flag <=>
              /\ held_bill.public_key # None
              /\ held_bill.signature # None
              /\ held_bill.signature[1] =
                    Sha256Hex(held_bill.public_key[1] \o SummaryHash(held_bill))
        /\ bill_op.was_valid => ~bill_op.flag

C18_Witness ==
    /\ bill_op.name = "verify"
    /\ bill_op.was_valid
    /\ bill_op.writes = 1
    /\ ~bill_op.flag
    /\ held_bill.public_key # None
    /\ held_bill.signature # None

\* C16: two get_mining_data calls with the same nonce on the same unmodified
\* bill return the same payload, whenever they are made.
C16_PayloadDeterministic ==
    \A i, j \in DOMAIN payloads :
        (payloads[i].nonce = payloads[j].nonce /\ payloads[i].bill = payloads[j].bill)
            => payloads[i].payload = payloads[j].payload

\* what one candidate of a batch hashes to: the payload with its own nonce,
\* serialized in the iteration order of the map it was cloned from
CandidateHash(base_data, order, n) ==
    Sha256Hex(BlockString(MapPut(base_data, "nonce", Digits(n)), order))

\* C20: compute_hashes_parallel returns one hash per nonce, the i-th being
\* the hash of the payload with nonce = nonces[i]; a candidate's hash does
\* not depend on the rest of the batch, and the payload is left as it was.
C20_BatchHashesPerNonce ==
    /\ \A c \in DOMAIN hash_calls :
          LET call == hash_calls[c]
          IN  /\ Len(call.hashes) = Len(call.nonces)
              /\ \A i \in 1..Len(call.nonces) :
                    call.hashes[i] = CandidateHash(call.base_data, call.order, call.nonces[i])
              /\ call.base_after = call.base_data
    /\ \A c, d \in DOMAIN hash_calls :
          (hash_calls[c].base_data = hash_calls[d].base_data
              /\ hash_calls[c].order = hash_calls[d].order)
            => \A i \in 1..Len(hash_calls[c].nonces), j \in 1..Len(hash_calls[d].nonces) :
                  hash_calls[c].nonces[i] = hash_calls[d].nonces[j]
                      => hash_calls[c].hashes[i] = hash_calls[d].hashes[j]

\* two batches over the same map share a nonce at different positions, next
\* to different other nonces
C20_Witness ==
    /\ Len(hash_calls) = 2
    /\ hash_calls[1].base_data = hash_calls[2].base_data
    /\ hash_calls[1].order = hash_calls[2].order
    /\ "nonce" \in DOMAIN hash_calls[1].base_data
    /\ hash_calls[1].nonces = <<1, 0>>
    /\ hash_calls[2].nonces = <<2, 1>>
    /\ hash_calls[1].hashes[1] = hash_calls[2].hashes[2]
    /\ hash_calls[1].hashes[1] # hash_calls[1].hashes[2]

\* C17: two payloads with equal key/value content and equal nonce hash to
\* the same value, whatever order their maps iterate in.
C17_HashIgnoresIterationOrder ==
    \A c, d \in DOMAIN hash_calls :
        hash_calls[c].base_data = hash_calls[d].base_data
          => \A i \in 1..Len(hash_calls[c].nonces), j \in 1..Len(hash_calls[d].nonces) :
                hash_calls[c].nonces[i] = hash_calls[d].nonces[j]
                    => hash_calls[c].hashes[i] = hash_calls[d].hashes[j]

\* C19: once a bill created by create_genesis_bill has been mined and
\* finalized, verify_bill on its serial finds its record in the registry.
C19_IssuedBillIsRegistered ==
    [][ ( /\ created.outcome = "bill"
          /\ payloads # <<>>
          /\ bill_op.name = "finalize"
          /\ verification' # verification
          /\ verification'.bill_serial = held_bill.bill_serial )
            => /\ held_bill.bill_serial \in DOMAIN bill_registry'
               /\ verification'.result[1].error # Some("Bill not found in registry") ]_vars

\* C21: a cuda_mine_batch invocation that has ended returned no result
\* without hashing when the accelerator is unavailable, and otherwise
\* returned a success or, with more than 300 seconds elapsed, no result.
C21_BatchSearchOutcome ==
    cuda_search.pc = "done" =>
        IF ~cuda_search.cuda_available
        THEN cuda_search.outcome = "no_result" /\ cuda_search.hashed = 0
        ELSE \/ cuda_search.outcome = "success"
             \/ cuda_search.outcome = "no_result" /\ cuda_search.elapsed > 2 * 300

\* the block fields as serialized with the nonce n: the entries of the
\* caller's map, nonce included, in the order the map iterates them
SerializedWithNonce(block, order, n) ==
    LET fields == [k \in DOMAIN block \cup {"nonce"} |->
                      IF k = "nonce" THEN Digits(n) ELSE block[k]]
    IN  ToJsonString([i \in 1..Len(order) |-> <<order[i], fields[order[i]]>>])

\* C22: a mine_block call that returns a result has tried the nonces 0, 1,
\* 2, ... in this order, each hashed as the SHA-256 of the block fields
\* serialized with that nonce; the caller's block fields then hold the
\* winning nonce and its hash, which starts with `difficulty` '0'
\* characters while the hash of every smaller nonce does not, and the
\* returned record equals the caller's block fields.
C22_BlockResultInPlace ==
    [][ \A t \in Threads : (SuccessStep(t) /\ op[t] = "mine_block") =>
          /\ returned'.op = "mine_block"
          /\ returned'.value # None
          /\ LET r == returned'.value[1]
                 a == attempts[t]
                 own == [k \in DOMAIN block_data[t] \ {"nonce"} |-> block_data[t][k]]
             IN  /\ returned'.block_data = r
                 /\ \A k \in DOMAIN own : r[k] = own[k]
                 /\ r.nonce = Digits(Len(a) - 1)
                 /\ \A i \in 1..Len(a) :
                      /\ a[i].nonce = i - 1
                      /\ a[i].hash = Sha256Hex(SerializedWithNonce(own, iter_order[t], i - 1))
                 /\ r.hash = JsonStr(a[Len(a)].hash)
                 /\ StartsWith(a[Len(a)].hash, Repeat("0", difficulty[t]))
                 /\ \A i \in 1..(Len(a) - 1) :
                      ~StartsWith(a[i].hash, Repeat("0", difficulty[t]))
      ]_vars

C22_Witness ==
    /\ returned.op = "mine_block"
    /\ returned.value # None
    /\ returned.difficulty > 0
    /\ returned.tried > 1
    /\ returned.block_data.nonce = Digits(returned.tried - 1)

\* C23: target_string() of a level is exactly `level` characters '0', and
\* is_valid_hash(h) holds exactly when h begins with them; level 0 accepts
\* every hash and a hash shorter than the level is never valid.
C23_TargetPrefix ==
    LET c == difficulty_call
        level == c.value.lo
    IN  /\ c.name = "target_string" =>
              /\ Len(c.text) = level
              /\ \A i \in 1..Len(c.text) : CharAt(c.text, i) = "0"
        /\ c.name = "is_valid_hash" =>
              /\ c.flag <=> /\ Len(c.hash) >= level
                            /\ \A i \in 1..level : CharAt(c.hash, i) = "0"
              /\ level = 0 => c.flag
              /\ Len(c.hash) < level => ~c.flag

C23_Witness ==
    /\ difficulty_call.name = "is_valid_hash"
    /\ difficulty_call.value = U32(3)
    /\ difficulty_call.hash = "0000"
    /\ difficulty_call.flag

\* C24: adjust returns level + 1 when observed < target, level - 1 when
\* observed > target and level > 1, the level itself when observed =
\* target, and leaves the Difficulty it is called on as it was.
C24_AdjustSteps ==
    LET c == difficulty_call
    IN  c.name = "adjust" =>
          /\ c.outcome = "value"
          /\ c.last_block_time < c.target_time =>
                /\ c.returned # c.value
                /\ U32Leq(c.value, c.returned)
                /\ U32Dec(c.returned) = c.value
          /\ (c.last_block_time > c.target_time /\ U32Leq(U32(2), c.value)) =>
                /\ c.returned # U32Max
                /\ U32Inc(c.returned).value = c.value
          /\ c.last_block_time = c.target_time => c.returned = c.value
          /\ c.value_after = c.value

\* C25: from every starting level, adjust never lowers the level when
\* observed < target, and when observed > target never raises it and never
\* returns a level below 1.
C25_AdjustMonotonic ==
    LET c == difficulty_call
    IN  c.name = "adjust" =>
          /\ c.outcome = "value"
          /\ c.last_block_time < c.target_time => U32Leq(c.value, c.returned)
          /\ c.last_block_time > c.target_time =>
                /\ U32Leq(c.returned, c.value)
                /\ U32Leq(U32(1), c.returned)

\* the serials of the rows an address owns
OwnedBy(registry, user_address) ==
    {s \in DOMAIN registry : registry[s].user_address = user_address}

\* the sum of the values of the rows with these serials
RECURSIVE ValueOf(_, _)
ValueOf(registry, serials) ==
    IF serials = {} THEN 0
    ELSE LET s == CHOOSE s \in serials : TRUE
         IN  registry[s].luna_value + ValueOf(registry, serials \ {s})

\* the sum of the counts of a breakdown
RECURSIVE CountSum(_)
CountSum(breakdown) ==
    IF DOMAIN breakdown = {} THEN 0
    ELSE LET d == CHOOSE d \in DOMAIN breakdown : TRUE
         IN  breakdown[d] + CountSum([x \in DOMAIN breakdown \ {d} |-> breakdown[x]])

\* a portfolio is the aggregation of the rows its address owns
Aggregates(registry, portfolio) ==
    LET owned == OwnedBy(registry, portfolio.arg)
    IN  /\ portfolio.total_bills = Cardinality(owned)
        /\ portfolio.total_luna_value = ValueOf(registry, owned)
        /\ DOMAIN portfolio.breakdown = {registry[s].denomination : s \in owned}
        /\ \A d \in DOMAIN portfolio.breakdown :
              portfolio.breakdown[d] =
                  Cardinality({s \in owned : registry[s].denomination = d})
        /\ CountSum(portfolio.breakdown) = portfolio.total_bills

\* the address of the portfolio owns three bills of denominations 10, 10, 100
TenTenHundred(registry, portfolio) ==
    LET owned == OwnedBy(registry, portfolio.arg)
    IN  /\ Cardinality(owned) = 3
        /\ Cardinality({s \in owned : registry[s].denomination = 10}) = 2
        /\ Cardinality({s \in owned : registry[s].denomination = 100}) = 1

\* the report the example expects
ExampleReport(portfolio) ==
    /\ portfolio.total_bills = 3
    /\ portfolio.total_luna_value = 120
    /\ portfolio.breakdown = (10 :> 2) @@ (100 :> 1)

SameBill(record, row) ==
    /\ record.bill_serial = row.bill_serial
    /\ record.denomination = row.denomination
    /\ record.user_address = row.user_address
    /\ record.hash = row.hash
    /\ record.status = row.status
    /\ record.metadata = row.metadata

\* C30: register_bill(b) leaves exactly one record under b.bill_serial, with
\* b's fields, and the other serials as they were; get_bill of a registered
\* serial returns its record and of any other serial none; get_user_bills
\* returns each record of the address once.
C30_RegistryKeyedBySerial ==
    [][ /\ bill_registry' # bill_registry =>
              \E b \in OwnedBillInfos :
                  /\ DOMAIN bill_registry' = DOMAIN bill_registry \cup {b.bill_serial}
                  /\ SameBill(bill_registry'[b.bill_serial], b)
                  /\ \A s \in DOMAIN bill_registry \ {b.bill_serial} :
                        bill_registry'[s] = bill_registry[s]
        /\ (registry_call' # registry_call /\ registry_call'.name = "get_bill") =>
              IF registry_call'.arg \in DOMAIN bill_registry
              THEN /\ registry_call'.found # None
                   /\ SameBill(registry_call'.found[1], bill_registry[registry_call'.arg])
              ELSE registry_call'.found = None
        /\ (registry_call' # registry_call /\ registry_call'.name = "get_user_bills") =>
              LET rows == registry_call'.rows
                  owned == OwnedBy(bill_registry, registry_call'.arg)
              IN  /\ Len(rows) = Cardinality(owned)
                  /\ {rows[i].bill_serial : i \in DOMAIN rows} = owned
                  /\ \A i \in DOMAIN rows :
                        SameBill(rows[i], bill_registry[rows[i].bill_serial])
      ]_vars

\* a record was read, and a second registration under its serial has
\* replaced it since; the address of the new row owns two rows
C30_Witness ==
    /\ registry_call.name = "get_bill"
    /\ registry_call.found # None
    /\ registry_call.found[1].metadata = Some(("n" :> JU64(3)) @@ ("t" :> JF64(6)))
    /\ registry_call.arg \in DOMAIN bill_registry
    /\ bill_registry[registry_call.arg].hash # registry_call.found[1].hash
    /\ Cardinality(OwnedBy(bill_registry, bill_registry[registry_call.arg].user_address)) = 2

\* C27: the copy get_mining_stats returns holds the additions of every
\* success that has returned and of no other: no success is part applied
\* in it; and a copy that was returned stays as it is when the stats are
\* updated later.
C27_SnapshotConsistent ==
    [][ /\ (returned' # returned /\ returned'.op = "get_mining_stats") =>
              /\ returned'.value = Some(completed_stats)
              /\ \A t \in Threads : update_step[t] = 0
        /\ (mining_stats' # mining_stats /\ returned.op = "get_mining_stats") =>
              returned' = returned
      ]_vars

\* a copy was taken while a search was running, and the success of the
\* search has been added to the stats since
C27_Witness ==
    /\ returned.op = "get_mining_stats"
    /\ returned.value = Some(NewStats)
    /\ mining_stats.bills_mined = 1
    /\ \E t \in Threads : pc[t] = "update" /\ update_step[t] = 2

\* what C29 says of the bills in a state
NewBillFields ==
    /\ held_bill.created_time = held_bill.timestamp
    /\ held_bill.issued_to = held_bill.user_address
    /\ held_bill.front_serial = held_bill.bill_serial
    /\ bill_op.name = "new" =>
          /\ held_bill.user_address = new_args.user_address
          /\ IF new_args.bill_type = None THEN held_bill.bill_type = "GTX_Genesis"
             ELSE held_bill.bill_type = new_args.bill_type[1]
          /\ IF new_args.front_serial = None THEN StartsWith(held_bill.bill_serial, "GTX")
             ELSE held_bill.bill_serial = new_args.front_serial[1]
    /\ (created.outcome = "bill" /\ bill_op = NoBillOp) =>
          /\ held_bill.bill_type = "GTX_Genesis"
          /\ held_bill.user_address = created.user_address
          /\ held_bill.public_key = None
          /\ held_bill.signature = None
    /\ \A t \in Threads : op[t] = "mine_bill" =>
          /\ digital_bill[t].created_time = digital_bill[t].timestamp
          /\ digital_bill[t].bill_type = "GTX_Genesis"
          /\ digital_bill[t].front_serial = digital_bill[t].bill_serial
          /\ digital_bill[t].issued_to = digital_bill[t].user_address
          /\ digital_bill[t].public_key = None
          /\ digital_bill[t].signature = None

\* C29: a bill is constructed with created_time = timestamp, issued_to =
\* user_address, bill_type "GTX_Genesis" or the one supplied, and
\* front_serial = bill_serial, which is the front serial supplied if there
\* is one; the bills of create_genesis_bill and mine_bill carry no
\* public_key and no signature, and a bill held gets them only in a
\* finalize, both together.
C29_FreshBillFields ==
    [][ /\ NewBillFields'
        /\ ( \/ held_bill.public_key = None /\ held_bill'.public_key # None
             \/ held_bill.signature = None /\ held_bill'.signature # None )
              => /\ bill_op'.name = "finalize"
                 /\ held_bill'.public_key # None
                 /\ held_bill'.signature # None
      ]_vars

\* a bill of create_genesis_bill has been finalized with a key, after a
\* direct construction with a front serial and a bill type, while a
\* mine_bill call holds its bill
C29_Witness ==
    /\ created.outcome = "bill"
    /\ bill_op.name = "finalize"
    /\ held_bill.public_key # None
    /\ held_bill.bill_type = "GTX_Genesis"
    /\ new_args.front_serial = Some("f1")
    /\ new_args.bill_type = Some("GTX_other")
    /\ \E t \in Threads : op[t] = "mine_bill"

\* the flag and the stats a call on instance e reads
FlagOf(e) == active_cells[engines[e].mining_active].value

StatsOf(e) == stats_cells[engines[e].mining_stats].value

\* the search of instance e is between taking the active guard and its return
Searching(e) == fleet[e].pc \in {"loop", "lock_stats", "update"}

\* C28: distinct engine instances share no state: a step of a mine_bill,
\* mine_block or stop_mining call on one instance leaves the active flag
\* and the stats of every other instance as they were; the mutexes of an
\* instance are held by its own search only, so no other instance's call
\* makes it wait; and the flag of an instance stays true while its search
\* runs, so no other instance's stop_mining ends it.
C28_InstancesShareNothing ==
    [][ \A e \in EngineIds : \A other \in EngineIds \ {e} :
          /\ fleet'[e] # fleet[e] =>
                /\ FlagOf(other)' = FlagOf(other)
                /\ StatsOf(other)' = StatsOf(other)
                /\ fleet'[other] = fleet[other]
          /\ active_cells'[engines'[e].mining_active].guard \in {NoEngine, e}
          /\ stats_cells'[engines'[e].mining_stats].guard \in {NoEngine, e}
          /\ Searching(e)' => FlagOf(e)'
      ]_vars

\* instance 1 has mined a bill and its flag has been cleared by stop_mining
\* while the search of instance 2 runs with its flag up and untouched stats
C28_Witness ==
    /\ StatsOf(1).bills_mined = 1
    /\ ~ FlagOf(1)
    /\ fleet[1].calls = 2
    /\ fleet[2].pc = "loop"
    /\ fleet[2].nonce > 0
    /\ FlagOf(2)
    /\ StatsOf(2) = NewStats

\* C31: mine_bill does not look at the denomination: a call with any
\* denomination, 0 and 7 included, constructs the bill with it, starts at
\* nonce 0 and goes on to the search; when the search returns a result the
\* stats grow by one bill, the mining time and the winning nonce, whatever
\* the denomination.
C31_MineBillTotalInDenomination ==
    [][ \A t \in Threads :
          /\ (pc[t] = "idle" /\ op'[t] = "mine_bill") =>
                /\ pc'[t] = "lock_active"
                /\ nonce'[t] = 0
                /\ digital_bill'[t].denomination \in SeqDenominations
                /\ digital_bill'[t].bill_type = "GTX_Genesis"
                /\ StartsWith(digital_bill'[t].bill_serial,
                              "GTX" \o Digits(digital_bill'[t].denomination) \o "_")
          /\ (pc[t] \in {"loop", "hash"} /\ op[t] = "mine_bill") =>
                /\ digital_bill'[t] = digital_bill[t]
                /\ pc'[t] # "idle"
          /\ (SuccessStep(t) /\ op[t] = "mine_bill") =>
                /\ returned'.value # None
                /\ mining_stats'.bills_mined = mining_stats.bills_mined + 1
                /\ mining_stats'.blocks_mined = mining_stats.blocks_mined
                /\ mining_stats'.total_mining_time =
                       mining_stats.total_mining_time + F64AsU64(mining_time[t])
                /\ mining_stats'.total_hash_attempts =
                       mining_stats.total_hash_attempts + nonce[t]
      ]_vars

\* a mine_bill of denomination 7 has found its nonce after failed
\* candidates and is about to return, after an earlier bill was mined
C31_Witness ==
    /\ pc[1] = "update"
    /\ op[1] = "mine_bill"
    /\ digital_bill[1].denomination = 7
    /\ digital_bill[1].denomination \notin valid_denominations
    /\ nonce[1] > 0
    /\ mining_stats.bills_mined = 1

\* the bill held is as finalize with private_key leaves it
FinalizedWith(private_key) ==
    /\ bill_op.name = "finalize"
    /\ held_bill.public_key = Some(derive_public_key(private_key))
    /\ held_bill.signature = Some(sign(held_bill, private_key))

\* C32: verify() called on a bill right after finalize with a private key
\* returns true.
C32_FinalizeThenVerify ==
    [][ ( /\ \E private_key \in PrivateKeys : FinalizedWith(private_key)
          /\ bill_op'.name = "verify" )
        => bill_op'.flag ]_vars

\* thread t waits for a mutex that thread u holds
WaitsFor(t, u) ==
    \/ pc[t] \in {"lock_active", "stop_lock"} /\ active_lock = u
    \/ pc[t] = "lock_stats" /\ stats_lock = u

\* the locks are taken in the order active flag, then stats, and only by
\* threads inside a call
LockOrder ==
    /\ \A t \in Threads : ~WaitsFor(t, t)
    /\ \A t \in Threads : \A u \in Threads \ {t} : ~(WaitsFor(t, u) /\ WaitsFor(u, t))
    /\ \A t \in Threads :
          /\ stats_lock = t => active_lock = t /\ pc[t] = "update"
          /\ active_lock = t => pc[t] \in {"loop", "hash", "lock_stats", "update"}
          /\ pc[t] = "lock_stats" => stats_lock = NoThread

\* C33: threads calling mine_bill, mine_block, stop_mining and
\* get_mining_stats on one engine never wait for each other in a cycle: the
\* stats lock is only taken by the thread that holds the active-flag lock,
\* and its holder waits for nothing; every call returns in the end, unless
\* a search goes on to the last nonce without a satisfying one before it.
C33_NoDeadlock ==
    /\ []LockOrder
    /\ \A t \in Threads :
          (pc[t] # "idle") ~> (pc[t] = "idle" \/ \E u \in Threads : AtLastNonce(u))

\* a stop_mining call and a search wait for the active-flag lock while a
\* search that has failed candidates behind it holds it
C33_Witness ==
    /\ pc[1] = "hash"
    /\ nonce[1] > 0
    /\ active_lock = 1
    /\ pc[2] \in {"lock_active", "stop_lock"}
    /\ ~AtLastNonce(1)

\* the threads whose search loop is running
InFlightThreads == {t \in Threads : InFlight(t)}

\* C34: on one engine at most one search loop runs at a time: a search
\* enters its loop only when no other search is in its loop, which it leaves
\* only by returning; and the step in which a search returns a result
\* counts exactly one bill or block, while no other step counts any.
C34_OneSearchInFlight ==
    [][ /\ Cardinality(InFlightThreads) <= 1
        /\ Cardinality(InFlightThreads') <= 1
        /\ \A t \in Threads :
             /\ (~InFlight(t) /\ InFlight(t)') =>
                   /\ InFlightThreads = {}
                   /\ pc[t] = "lock_active"
                   /\ nonce'[t] = 0
             /\ (InFlight(t) /\ ~InFlight(t)') =>
                   /\ pc'[t] = "idle"
                   /\ returned'.op = op[t]
        /\ LET mined == mining_stats.bills_mined + mining_stats.blocks_mined
               mined_after == mining_stats'.bills_mined + mining_stats'.blocks_mined
           IN  IF \E t \in Threads : SuccessStep(t)
               THEN mined_after = mined + 1
               ELSE mined_after = mined
      ]_vars

\* two searches have been called on the engine: one is in its loop past
\* failed candidates, the other waits at its entry
C34_Witness ==
    \E t \in Threads : \E u \in Threads \ {t} :
        /\ pc[t] = "hash"
        /\ nonce[t] > 0
        /\ op[u] \in Searches
        /\ pc[u] = "lock_active"

\* the stop_mining calls made before the search that returned last, when
\* every call is a stop_mining or a search that has returned a result
StopsBefore ==
    calls - 1 - (returned.stats_at_entry.bills_mined
                 + returned.stats_at_entry.blocks_mined)

ScanHash(n) ==
    Sha256Hex(SerializedWithNonce(cuda_search.base_data, cuda_search.order, n))

ScanHit(n) == StartsWith(ScanHash(n), Repeat("0", cuda_search.difficulty))

\* C36: with batch_size >= 1 the batches of cuda_mine_batch start at 0,
\* batch_size, 2 * batch_size, ... and every nonce below the current batch
\* has been hashed once and failed the target; a success returns the
\* smallest nonce whose hash meets the target, with that hash: the nonce a
\* scan from 0 upwards returns.
C36_BatchFindsSmallestNonce ==
    LET c == cuda_search
    IN  (c.cuda_available /\ c.batch_size >= 1 /\ c.pc # "idle") =>
          /\ c.nonce_start % c.batch_size = 0
          /\ \A n \in 0..(c.nonce_start - 1) : ~ScanHit(n)
          /\ c.pc = "loop" => c.hashed = c.nonce_start
          /\ c.outcome = "success" =>
                /\ c.hashed = c.nonce_start + c.batch_size
                /\ c.nonce \in c.nonce_start..(c.nonce_start + c.batch_size - 1)
                /\ ScanHit(c.nonce)
                /\ c.hash = ScanHash(c.nonce)
                /\ \A n \in 0..(c.nonce - 1) : ~ScanHit(n)

\* a search in batches of two has returned a nonce of its second batch or
\* later
C36_Witness ==
    /\ cuda_search.outcome = "success"
    /\ cuda_search.batch_size = 2
    /\ cuda_search.nonce >= 2
    /\ cuda_search.nonce_start >= 2

\* C37: total_hash_attempts is 0 on a new engine and changes only when a
\* search returns a result, by the winning nonce, which is the number of
\* candidates that failed before the winner (0 for a search that succeeds at
\* its first candidate, as every search of difficulty 0 does); so it is the
\* sum of the winning nonces of the successful searches.
C37_AttemptsSumWinningNonces ==
    [][ /\ calls = 0 => mining_stats.total_hash_attempts = 0
        /\ IF \E t \in Threads : SuccessStep(t)
           THEN \A t \in Threads : SuccessStep(t) =>
                  LET failed == Len(attempts[t]) - 1
                      winner == IF op[t] = "mine_bill"
                                THEN Digits(returned'.value[1].nonce)
                                ELSE returned'.value[1].nonce
                  IN  /\ winner = Digits(failed)
                      /\ mining_stats'.total_hash_attempts =
                             mining_stats.total_hash_attempts + failed
                      /\ difficulty[t] = 0 => failed = 0
           ELSE mining_stats'.total_hash_attempts = mining_stats.total_hash_attempts
      ]_vars

\* two searches have returned results: the last one at nonce 0, the one
\* before it after failed candidates
C37_Witness ==
    /\ returned.op \in Searches
    /\ returned.value # None
    /\ returned.tried = 1
    /\ mining_stats.bills_mined + mining_stats.blocks_mined = 2
    /\ mining_stats.total_hash_attempts >= 1

\* C38: a cuda_mine_batch invocation on an available accelerator never
\* aborts with an arithmetic error, whatever the batch size; with
\* batch_size = 0 it ends with no result, at the cutoff.
C38_BatchNeverAborts ==
    cuda_search.cuda_available =>
        /\ cuda_search.outcome # "panic"
        /\ (cuda_search.pc = "done" /\ cuda_search.batch_size = 0) =>
              /\ cuda_search.outcome = "no_result"
              /\ CutoffPassed(cuda_search.elapsed)

====
